---- MODULE Spec2Model ----
(***************************************************************************)
(* A model of the TOML concrete-syntax-tree library (package toml):        *)
(* the lexer, the recursive-descent parser, the semantic validator, the    *)
(* serializer and the mutation API, as a state machine over a heap of      *)
(* nodes with parent back-pointers.                                        *)
(*                                                                         *)
(* Text is a sequence of one-character strings.  Positions are 1-based:    *)
(* the Go byte offset p is the position p+1 here.                          *)
(***************************************************************************)
EXTENDS Integers, Sequences, FiniteSets, TLC

\* ------------------------------------------------------------------ bytes

NUL == "NUL"   \* what lexer.peek returns past the end of the source (byte 0)

Digits == {"0", "1", "2", "3", "4", "5", "6", "7", "8", "9"}

LowerLetters ==
    {"a", "b", "c", "d", "e", "f", "g", "h", "i", "j", "k", "l", "m",
     "n", "o", "p", "q", "r", "s", "t", "u", "v", "w", "x", "y", "z"}

UpperLetters ==
    {"A", "B", "C", "D", "E", "F", "G", "H", "I", "J", "K", "L", "M",
     "N", "O", "P", "Q", "R", "S", "T", "U", "V", "W", "X", "Y", "Z"}

isDigit(ch) == ch \in Digits

isBareKeyChar(r) == r \in (LowerLetters \cup UpperLetters \cup Digits \cup {"-", "_"})

\* strings.HasPrefix
HasPrefix(s, prefix) ==
    /\ Len(prefix) <= Len(s)
    /\ SubSeq(s, 1, Len(prefix)) = prefix

\* strings.ContainsRune / strings.Count for one byte
Contains(s, ch) == \E i \in 1..Len(s) : s[i] = ch

Count(s, ch) == Cardinality({i \in 1..Len(s) : s[i] = ch})

\* s[from:] with a 1-based first position
Tail1(s, from) == SubSeq(s, from, Len(s))

\* ------------------------------------------------------------------ lexer

\* Token{Type, Text, Pos}; end is the lexer's pos after the token.
Token(typ, src, start, end) ==
    [type |-> typ, text |-> SubSeq(src, start, end - 1), pos |-> start, end |-> end]

peek(src, pos) == IF pos > Len(src) THEN NUL ELSE src[pos]

peekNext(src, pos) == IF pos + 1 > Len(src) THEN NUL ELSE src[pos + 1]

\* the position after the longest run of bytes of `set` starting at pos
RECURSIVE ScanWhile(_, _, _)
ScanWhile(src, pos, set) ==
    IF pos <= Len(src) /\ src[pos] \in set THEN ScanWhile(src, pos + 1, set) ELSE pos

\* the position of the first byte of `stop` at or after pos (or the end)
RECURSIVE ScanUntil(_, _, _)
ScanUntil(src, pos, stop) ==
    IF pos <= Len(src) /\ src[pos] \notin stop THEN ScanUntil(src, pos + 1, stop) ELSE pos

scanNewline(src, pos) ==
    LET p1 == IF peek(src, pos) = "\r" THEN pos + 1 ELSE pos
    IN  Token("TokNewline", src, pos, IF p1 > Len(src) THEN p1 ELSE p1 + 1)

scanWhitespace(src, pos) ==
    Token("TokWhitespace", src, pos, ScanWhile(src, pos, {" ", "\t"}))

scanComment(src, pos) ==
    Token("TokComment", src, pos, ScanUntil(src, pos, {"\n", "\r"}))

\* pos is the position after the opening quote; sPos is the token's start
RECURSIVE scanBasicString(_, _, _)
scanBasicString(src, pos, sPos) ==
    IF pos > Len(src) THEN Token("TokError", src, sPos, pos)
    ELSE LET ch == src[pos] IN
         IF ch \in {"\n", "\r"} THEN Token("TokError", src, sPos, pos)
         ELSE IF ch = "\\"
              THEN scanBasicString(src, IF pos + 1 > Len(src) THEN pos + 1 ELSE pos + 2, sPos)
         ELSE IF ch = "\"" THEN Token("TokBasicString", src, sPos, pos + 1)
         ELSE scanBasicString(src, pos + 1, sPos)

\* the inner loop of the multi-line scanners: at most 5 quotes are consumed
RECURSIVE QuoteRun(_, _, _, _)
QuoteRun(src, pos, q, count) ==
    IF pos <= Len(src) /\ src[pos] = q /\ count < 5
    THEN QuoteRun(src, pos + 1, q, count + 1)
    ELSE [pos |-> pos, count |-> count]

\* scanMultiLineBasicStr that ends the token after the third quote of a run
RECURSIVE scanMultiLineBasicStr_threeQuotes(_, _, _)
scanMultiLineBasicStr_threeQuotes(src, pos, sPos) ==
    IF pos > Len(src) THEN Token("TokError", src, sPos, pos)
    ELSE LET ch == src[pos] IN
         IF ch = "\\"
         THEN scanMultiLineBasicStr_threeQuotes(src, IF pos + 1 > Len(src) THEN pos + 1 ELSE pos + 2,
                                                sPos)
         ELSE IF ch = "\""
              THEN LET run == QuoteRun(src, pos, "\"", 0) IN
                   IF run.count >= 3
                   THEN Token("TokMultiLineBasicStr", src, sPos, pos + 3)
                   ELSE scanMultiLineBasicStr_threeQuotes(src, run.pos, sPos)
         ELSE scanMultiLineBasicStr_threeQuotes(src, pos + 1, sPos)

RECURSIVE scanMultiLineBasicStr(_, _, _)
scanMultiLineBasicStr(src, pos, sPos) ==
    IF pos > Len(src) THEN Token("TokError", src, sPos, pos)
    ELSE LET ch == src[pos] IN
         IF ch = "\\"
         THEN scanMultiLineBasicStr(src, IF pos + 1 > Len(src) THEN pos + 1 ELSE pos + 2, sPos)
         ELSE IF ch = "\""
              THEN LET run == QuoteRun(src, pos, "\"", 0) IN
                   IF run.count >= 3
                   THEN Token("TokMultiLineBasicStr", src, sPos, run.pos)
                   ELSE scanMultiLineBasicStr(src, run.pos, sPos)
         ELSE scanMultiLineBasicStr(src, pos + 1, sPos)

scanBasicStringStart(src, pos) ==
    IF peek(src, pos + 1) = "\"" /\ peekNext(src, pos + 1) = "\""
    THEN scanMultiLineBasicStr(src, pos + 3, pos)
    ELSE scanBasicString(src, pos + 1, pos)

RECURSIVE scanLiteralString(_, _, _)
scanLiteralString(src, pos, sPos) ==
    IF pos > Len(src) THEN Token("TokError", src, sPos, pos)
    ELSE LET ch == src[pos] IN
         IF ch \in {"\n", "\r"} THEN Token("TokError", src, sPos, pos)
         ELSE IF ch = "'" THEN Token("TokLiteralString", src, sPos, pos + 1)
         ELSE scanLiteralString(src, pos + 1, sPos)

RECURSIVE scanMultiLineLiteralStr(_, _, _)
scanMultiLineLiteralStr(src, pos, sPos) ==
    IF pos > Len(src) THEN Token("TokError", src, sPos, pos)
    ELSE LET ch == src[pos] IN
         IF ch = "'"
         THEN LET run == QuoteRun(src, pos, "'", 0) IN
              IF run.count >= 3
              THEN Token("TokMultiLineLiteralStr", src, sPos, run.pos)
              ELSE scanMultiLineLiteralStr(src, run.pos, sPos)
         ELSE scanMultiLineLiteralStr(src, pos + 1, sPos)

scanLiteralStringStart(src, pos) ==
    IF peek(src, pos + 1) = "'" /\ peekNext(src, pos + 1) = "'"
    THEN scanMultiLineLiteralStr(src, pos + 3, pos)
    ELSE scanLiteralString(src, pos + 1, pos)

startsNumeric(src, pos, valueMode) ==
    IF ~valueMode THEN FALSE
    ELSE LET ch == peek(src, pos) IN
         \/ isDigit(ch)
         \/ (ch \in {"+", "-"} /\ isDigit(peekNext(src, pos)))

isTokenDelimiter(ch, numericContext) ==
    \/ ch \in {" ", "\t", "\n", "\r", "#", "=", ",", "[", "]", "{", "}", "\"", "'"}
    \/ (ch = "." /\ ~numericContext)

RECURSIVE ScanToDelimiter(_, _, _)
ScanToDelimiter(src, pos, numCtx) ==
    IF pos <= Len(src) /\ ~isTokenDelimiter(src[pos], numCtx)
    THEN ScanToDelimiter(src, pos + 1, numCtx)
    ELSE pos

isSpecialFloat(s) ==
    s \in {<<"i", "n", "f">>, <<"+", "i", "n", "f">>, <<"-", "i", "n", "f">>,
           <<"n", "a", "n">>, <<"+", "n", "a", "n">>, <<"-", "n", "a", "n">>}

isDateTimeLikeToken(s) ==
    IF Len(s) < 5 THEN FALSE
    ELSE \/ (isDigit(s[1]) /\ Contains(s, ":"))
         \/ (isDigit(s[1]) /\ Count(s, "-") >= 2)

isBasePrefix(ch) == ch \in {"x", "o", "b"}

looksLikeNumber(s) ==
    IF Len(s) = 0 THEN FALSE
    ELSE LET start == IF s[1] \in {"+", "-"} THEN 2 ELSE 1 IN
         IF start > Len(s) THEN FALSE
         ELSE \/ isDigit(s[start])
              \/ (s[start] = "0" /\ start + 1 <= Len(s) /\ isBasePrefix(s[start + 1]))

containsFloatChar(s) == \E i \in 1..Len(s) : s[i] \in {".", "e", "E"}

classifyNumber(s) ==
    LET clean == IF Len(s) > 0 /\ s[1] \in {"+", "-"} THEN Tail(s) ELSE s IN
    IF Len(clean) > 1 /\ clean[1] = "0" /\ isBasePrefix(clean[2]) THEN "TokInteger"
    ELSE IF containsFloatChar(clean) THEN "TokFloat"
    ELSE "TokInteger"

classifyBareToken(s) ==
    IF s = <<"t", "r", "u", "e">> \/ s = <<"f", "a", "l", "s", "e">> THEN "TokBoolean"
    ELSE IF isSpecialFloat(s) THEN "TokFloat"
    ELSE IF isDateTimeLikeToken(s) THEN "TokDateTime"
    ELSE IF looksLikeNumber(s) THEN classifyNumber(s)
    ELSE "TokBareKey"

isDateLikePrefix(s) == Len(s) = 10 /\ isDigit(s[1]) /\ s[5] = "-" /\ s[8] = "-"

peekSpaceTime(src, pos) ==
    /\ pos <= Len(src) /\ src[pos] = " "
    /\ pos + 1 <= Len(src) /\ isDigit(src[pos + 1])
    /\ pos + 2 <= Len(src) /\ isDigit(src[pos + 2])
    /\ pos + 3 <= Len(src) /\ src[pos + 3] = ":"

peekForDot(src, pos) ==
    LET p == ScanWhile(src, pos, {" ", "\t"}) IN p <= Len(src) /\ src[p] = "."

\* scanBareOrValue without the advance that precedes its error token
scanBareOrValue_stuck(src, pos, valueMode) ==
    LET numCtx == startsNumeric(src, pos, valueMode)
        e1     == ScanToDelimiter(src, pos, numCtx)
    IN  IF e1 = pos
        THEN Token("TokError", src, pos, pos)
        ELSE LET text1 == SubSeq(src, pos, e1 - 1)
                 e2    == IF numCtx /\ isDateLikePrefix(text1) /\ peekSpaceTime(src, e1)
                          THEN ScanToDelimiter(src, e1 + 1, TRUE)
                          ELSE e1
             IN  Token(classifyBareToken(SubSeq(src, pos, e2 - 1)), src, pos, e2)

scanBareOrValue(src, pos, valueMode) ==
    LET numCtx == startsNumeric(src, pos, valueMode)
        e1     == ScanToDelimiter(src, pos, numCtx)
    IN  IF e1 = pos
        THEN Token("TokError", src, pos, pos + 1)
        ELSE LET text1 == SubSeq(src, pos, e1 - 1)
                 e2    == IF numCtx /\ isDateLikePrefix(text1) /\ peekSpaceTime(src, e1)
                          THEN ScanToDelimiter(src, e1 + 1, TRUE)
                          ELSE e1
             IN  Token(classifyBareToken(SubSeq(src, pos, e2 - 1)), src, pos, e2)

\* lexer.Next at position pos with the lexer's valueMode
Next(src, pos, valueMode) ==
    IF pos > Len(src) THEN [type |-> "TokEOF", text |-> <<>>, pos |-> pos, end |-> pos]
    ELSE LET ch == src[pos] IN
         IF ch = "\n" \/ (ch = "\r" /\ peekNext(src, pos) = "\n") THEN scanNewline(src, pos)
         ELSE IF ch = " " \/ ch = "\t" THEN scanWhitespace(src, pos)
         ELSE IF ch = "#" THEN scanComment(src, pos)
         ELSE IF ch = "=" THEN Token("TokEquals", src, pos, pos + 1)
         ELSE IF ch = "." THEN Token("TokDot", src, pos, pos + 1)
         ELSE IF ch = "," THEN Token("TokComma", src, pos, pos + 1)
         ELSE IF ch = "[" THEN Token("TokLBracket", src, pos, pos + 1)
         ELSE IF ch = "]" THEN Token("TokRBracket", src, pos, pos + 1)
         ELSE IF ch = "{" THEN Token("TokLBrace", src, pos, pos + 1)
         ELSE IF ch = "}" THEN Token("TokRBrace", src, pos, pos + 1)
         ELSE IF ch = "\"" THEN scanBasicStringStart(src, pos)
         ELSE IF ch = "'" THEN scanLiteralStringStart(src, pos)
         ELSE scanBareOrValue(src, pos, valueMode)

\* ------------------------------------------------------- token validation
\* The validators return an error message; the empty string means "valid".
\* Bytes that a TLA+ string cannot spell are named: BS, ESC, DEL and GRAVE (the backquote).

BS    == "BS"
ESC   == "ESC"
DEL   == "DEL"
GRAVE == "GRAVE"

\* isControlChar, for the control characters of the model's alphabet
isControlChar(r) == r \in {"\t", "\n", "\f", "\r", BS, ESC, DEL, NUL}

RECURSIVE validateCommentText(_)
validateCommentText(s) ==
    IF s = <<>> THEN ""
    ELSE IF Head(s) # "\t" /\ isControlChar(Head(s)) THEN "control character in comment"
    ELSE validateCommentText(Tail(s))

isHexDigit(c) == c \in Digits \cup {"a", "b", "c", "d", "e", "f", "A", "B", "C", "D", "E", "F"}

HexValue(c) ==
    CASE c = "0" -> 0 [] c = "1" -> 1 [] c = "2" -> 2 [] c = "3" -> 3 [] c = "4" -> 4
      [] c = "5" -> 5 [] c = "6" -> 6 [] c = "7" -> 7 [] c = "8" -> 8 [] c = "9" -> 9
      [] c \in {"a", "A"} -> 10 [] c \in {"b", "B"} -> 11 [] c \in {"c", "C"} -> 12
      [] c \in {"d", "D"} -> 13 [] c \in {"e", "E"} -> 14 [] c \in {"f", "F"} -> 15

\* strconv.ParseUint(s, 16, 32) of a string of hex digits
RECURSIVE ParseHex(_)
ParseHex(s) == IF s = <<>> THEN 0 ELSE ParseHex(SubSeq(s, 1, Len(s) - 1)) * 16 + HexValue(s[Len(s)])

\* validateUnicodeEscape: i is the position of the x/u/U; the result is the
\* next position and a message
validateUnicodeEscape(s, i, digits) ==
    IF i + digits > Len(s) THEN [i |-> 0, msg |-> "incomplete escape"]
    ELSE IF \E j \in 1..digits : ~isHexDigit(s[i + j]) THEN [i |-> 0, msg |-> "invalid escape"]
    ELSE LET n == ParseHex(SubSeq(s, i + 1, i + digits)) IN
         IF n >= 55296 /\ n <= 57343 THEN [i |-> 0, msg |-> "invalid unicode scalar"]
         ELSE IF n > 1114111 THEN [i |-> 0, msg |-> "unicode codepoint out of range"]
         ELSE [i |-> i + 1 + digits, msg |-> ""]

isWhitespaceOrNewline(c) == c \in {" ", "\t", "\n", "\r"}

skipLineEndingBackslash(s, i) ==
    LET i1 == IF s[i] = "\r" /\ i + 1 <= Len(s) /\ s[i + 1] = "\n" THEN i + 1 ELSE i
    IN  ScanWhile(s, i1 + 1, {" ", "\t", "\n", "\r"})

validateWsBackslash(s, i, multiline) ==
    LET j == ScanWhile(s, i, {" ", "\t"})
        hasNewlineAfterWs == j <= Len(s) /\ s[j] \in {"\n", "\r"}
    IN  IF multiline /\ hasNewlineAfterWs
        THEN [i |-> ScanWhile(s, i, {" ", "\t", "\n", "\r"}), msg |-> ""]
        ELSE [i |-> 0, msg |-> "invalid escape sequence"]

validateBasicEscape(s, i, multiline) ==
    LET c == s[i] IN
    IF c \in {"b", "t", "n", "f", "r", "\"", "\\", "e"} THEN [i |-> i + 1, msg |-> ""]
    ELSE IF c = "x" THEN validateUnicodeEscape(s, i, 2)
    ELSE IF c = "u" THEN validateUnicodeEscape(s, i, 4)
    ELSE IF c = "U" THEN validateUnicodeEscape(s, i, 8)
    ELSE IF c \in {"\n", "\r"}
         THEN IF ~multiline THEN [i |-> 0, msg |-> "invalid escape sequence"]
              ELSE [i |-> skipLineEndingBackslash(s, i), msg |-> ""]
    ELSE IF c \in {" ", "\t"} THEN validateWsBackslash(s, i, multiline)
    ELSE [i |-> 0, msg |-> "invalid escape sequence"]

checkBareCarriageReturn(s, i, multiline) ==
    IF multiline /\ s[i] = "\r" /\ (i + 1 > Len(s) \/ s[i + 1] # "\n")
    THEN "bare carriage return in multi-line string"
    ELSE ""

\* checkStringControlChar and checkLiteralControlChar (the same test)
checkStringControlChar(r, multiline) ==
    IF r = "\t" THEN ""
    ELSE IF isControlChar(r) /\ ~(multiline /\ r \in {"\n", "\r"}) THEN "control character in string"
    ELSE ""

RECURSIVE validateBasicContent(_, _, _)
validateBasicContent(s, i, multiline) ==
    IF i > Len(s) THEN ""
    ELSE IF s[i] = "\\"
         THEN IF i + 1 > Len(s) THEN "trailing backslash in string"
              ELSE LET e == validateBasicEscape(s, i + 1, multiline) IN
                   IF e.msg # "" THEN e.msg ELSE validateBasicContent(s, e.i, multiline)
    ELSE IF checkBareCarriageReturn(s, i, multiline) # ""
         THEN checkBareCarriageReturn(s, i, multiline)
    ELSE IF checkStringControlChar(s[i], multiline) # ""
         THEN checkStringControlChar(s[i], multiline)
    ELSE validateBasicContent(s, i + 1, multiline)

RECURSIVE validateLiteralContent(_, _, _)
validateLiteralContent(s, i, multiline) ==
    IF i > Len(s) THEN ""
    ELSE IF checkBareCarriageReturn(s, i, multiline) # ""
         THEN checkBareCarriageReturn(s, i, multiline)
    ELSE IF checkStringControlChar(s[i], multiline) # ""
         THEN checkStringControlChar(s[i], multiline)
    ELSE validateLiteralContent(s, i + 1, multiline)

\* the body of a multi-line string: the quotes and one leading newline removed
MultiLineInner(raw) ==
    LET inner == SubSeq(raw, 4, Len(raw) - 3) IN
    IF Len(inner) > 0 /\ inner[1] = "\n" THEN Tail(inner)
    ELSE IF HasPrefix(inner, <<"\r", "\n">>) THEN Tail1(inner, 3)
    ELSE inner

validateStringText(raw) ==
    IF Len(raw) < 2 THEN "invalid string"
    ELSE IF HasPrefix(raw, <<"\"", "\"", "\"">>) THEN validateBasicContent(MultiLineInner(raw), 1, TRUE)
    ELSE IF HasPrefix(raw, <<"'", "'", "'">>) THEN validateLiteralContent(MultiLineInner(raw), 1, TRUE)
    ELSE IF raw[1] = "'" THEN validateLiteralContent(SubSeq(raw, 2, Len(raw) - 1), 1, FALSE)
    ELSE validateBasicContent(SubSeq(raw, 2, Len(raw) - 1), 1, FALSE)

\* strings.ReplaceAll(s, ch, "")
RemoveChar(s, ch) == SelectSeq(s, LAMBDA c : c # ch)

\* strings.IndexAny / strings.LastIndexAny: 0-based, -1 when absent
IndexAny(s, set) ==
    IF \E i \in 1..Len(s) : s[i] \in set
    THEN (CHOOSE i \in 1..Len(s) : s[i] \in set /\ \A j \in 1..(i - 1) : s[j] \notin set) - 1
    ELSE -1

LastIndexAny(s, set) ==
    IF \E i \in 1..Len(s) : s[i] \in set
    THEN (CHOOSE i \in 1..Len(s) : s[i] \in set /\ \A j \in (i + 1)..Len(s) : s[j] \notin set) - 1
    ELSE -1

\* strings.Split(s, sep) for a one-byte separator
RECURSIVE Split(_, _)
Split(s, sep) ==
    LET k == IndexAny(s, {sep}) IN
    IF k < 0 THEN <<s>> ELSE <<SubSeq(s, 1, k)>> \o Split(Tail1(s, k + 2), sep)

\* strconv.Atoi of a string of decimal digits
RECURSIVE Atoi(_)
Atoi(s) == IF s = <<>> THEN 0 ELSE Atoi(SubSeq(s, 1, Len(s) - 1)) * 10 + HexValue(s[Len(s)])

stripSign(s) == IF Len(s) > 0 /\ s[1] \in {"+", "-"} THEN Tail(s) ELSE s

\* validateUnderscoresInBody: body is s[start:]
validateUnderscoresInBody(s, start) ==
    LET body == Tail1(s, start + 1) IN
    IF Len(body) = 0 THEN ""
    ELSE IF body[1] = "_" THEN "leading underscore"
    ELSE IF body[Len(body)] = "_" THEN "trailing underscore"
    ELSE IF \E i \in 2..Len(body) : body[i] = "_" /\ body[i - 1] = "_" THEN "double underscore"
    ELSE ""

validateUnderscores(raw) ==
    LET start == IF Len(raw) > 0 /\ raw[1] \in {"+", "-"} THEN 1 ELSE 0 IN
    IF start >= Len(raw) THEN "" ELSE validateUnderscoresInBody(raw, start)

hasUnsignedPrefix(clean) ==
    IF Len(clean) <= 1 THEN FALSE ELSE clean[1] = "0" /\ clean[2] \in {"x", "o", "b"}

hasSignedPrefix(clean) ==
    IF Len(clean) <= 2 THEN FALSE
    ELSE IF clean[1] \notin {"+", "-"} THEN FALSE
    ELSE clean[2] = "0" /\ clean[3] \in {"x", "o", "b"}

\* checkUnsignedPrefix with validatePrefixIntBody
checkUnsignedPrefix(raw, clean) ==
    LET body  == Tail1(clean, 3)
        valid == CASE clean[2] = "x" -> Digits \cup {"a", "b", "c", "d", "e", "f", "A", "B", "C", "D", "E", "F"}
                   [] clean[2] = "o" -> {"0", "1", "2", "3", "4", "5", "6", "7"}
                   [] clean[2] = "b" -> {"0", "1"}
    IN  IF Len(body) = 0 THEN "incomplete integer"
        ELSE IF \E i \in 1..Len(body) : body[i] \notin valid THEN "invalid digit in integer"
        ELSE validateUnderscoresInBody(raw, 2)

checkPrefixNumber(raw, clean) ==
    IF hasUnsignedPrefix(clean) THEN checkUnsignedPrefix(raw, clean)
    ELSE IF hasSignedPrefix(clean) THEN "sign not allowed on prefixed integer"
    ELSE ""

checkDecimalLeadingZeros(raw, clean) ==
    LET num == stripSign(clean) IN
    IF Len(num) <= 1 THEN ""
    ELSE IF num[1] = "0" /\ num[2] \notin {".", "e", "E"} THEN "leading zeros not allowed"
    ELSE ""

validateDecimalDigits(raw, clean) ==
    LET num == stripSign(clean) IN
    IF \E i \in 1..Len(num) : ~isDigit(num[i]) THEN "invalid character in integer"
    ELSE validateUnderscores(raw)

\* checkUnderscoreAdjacent with checkAdjacentChar, then validateUnderscores
validateFloatUnderscores(raw) ==
    IF \E i \in 1..Len(raw) :
          /\ raw[i] = "_"
          /\ \/ (i > 1 /\ raw[i - 1] \in {".", "e", "E"})
             \/ (i + 1 <= Len(raw) /\ raw[i + 1] \in {".", "e", "E"})
    THEN "underscore next to a float separator"
    ELSE validateUnderscores(raw)

validateFloatDotParts(raw, num, dotIdx, eIdx) ==
    IF dotIdx = 0 \/ dotIdx = Len(num) - 1 THEN "invalid float"
    ELSE LET afterDot0 == Tail1(num, dotIdx + 2)
             afterDot  == IF eIdx >= 0 THEN SubSeq(afterDot0, 1, eIdx - dotIdx - 1) ELSE afterDot0
         IN  IF Len(afterDot) = 0 THEN "no digits after decimal point" ELSE ""

validateFloatExponent(raw, clean, dotIdx, eIdx) ==
    LET eClean == IndexAny(clean, {"e", "E"})
        after0 == Tail1(clean, eClean + 2)
        after  == IF Len(after0) > 0 /\ after0[1] \in {"+", "-"} THEN Tail(after0) ELSE after0
    IN  IF Len(after) = 0 THEN "no digits in exponent"
        ELSE IF dotIdx >= 0 /\ dotIdx = eIdx - 1 THEN "no digits between dot and exponent"
        ELSE ""

validateFloatParts(raw, clean) ==
    LET num    == stripSign(clean)
        dotIdx == IndexAny(num, {"."})
        eIdx   == IndexAny(num, {"e", "E"})
    IN  IF dotIdx >= 0 /\ eIdx >= 0 /\ dotIdx > eIdx THEN "dot after exponent"
        ELSE IF dotIdx >= 0 /\ validateFloatDotParts(raw, num, dotIdx, eIdx) # ""
             THEN validateFloatDotParts(raw, num, dotIdx, eIdx)
        ELSE IF eIdx >= 0 THEN validateFloatExponent(raw, clean, dotIdx, eIdx)
        ELSE ""

validateFloatText(raw, clean) ==
    IF Count(clean, ".") > 1 THEN "multiple dots in float"
    ELSE IF Count(clean, "e") + Count(clean, "E") > 1 THEN "multiple exponents in float"
    ELSE IF validateFloatUnderscores(raw) # "" THEN validateFloatUnderscores(raw)
    ELSE validateFloatParts(raw, clean)

validateNumberText(text) ==
    LET raw   == text
        clean == RemoveChar(raw, "_")
    IN  IF isSpecialFloat(clean) THEN validateUnderscores(raw)
        ELSE IF hasUnsignedPrefix(clean) \/ hasSignedPrefix(clean) THEN checkPrefixNumber(raw, clean)
        ELSE IF checkDecimalLeadingZeros(raw, clean) # "" THEN checkDecimalLeadingZeros(raw, clean)
        ELSE IF \E i \in 1..Len(clean) : clean[i] \in {".", "e", "E"} THEN validateFloatText(raw, clean)
        ELSE validateDecimalDigits(raw, clean)

\* --- dates and times

\* \d{n} at position i
DigitsAt(s, i, n) == i + n - 1 <= Len(s) /\ \A j \in i..(i + n - 1) : isDigit(s[j])

CharAt(s, i, set) == i <= Len(s) /\ s[i] \in set

\* dtDateRe at position 1
MatchDate(s) ==
    /\ DigitsAt(s, 1, 4) /\ CharAt(s, 5, {"-"})
    /\ DigitsAt(s, 6, 2) /\ CharAt(s, 8, {"-"})
    /\ DigitsAt(s, 9, 2)

\* dtTimeRe at position i: the positions at which a match can end
TimeEnds(s, i) ==
    IF ~(DigitsAt(s, i, 2) /\ CharAt(s, i + 2, {":"}) /\ DigitsAt(s, i + 3, 2)) THEN {}
    ELSE {i + 5} \cup
         (IF CharAt(s, i + 5, {":"}) /\ DigitsAt(s, i + 6, 2)
          THEN {i + 8} \cup
               (IF CharAt(s, i + 8, {"."})
                THEN {e \in (i + 10)..(Len(s) + 1) : DigitsAt(s, i + 9, e - (i + 9))}
                ELSE {})
          ELSE {})

\* dtOffsetRe from position i to the end
MatchOffsetToEnd(s, i) ==
    \/ (i = Len(s) /\ s[i] \in {"Z", "z"})
    \/ /\ i + 5 = Len(s) /\ s[i] \in {"+", "-"}
       /\ DigitsAt(s, i + 1, 2) /\ s[i + 3] = ":" /\ DigitsAt(s, i + 4, 2)

dtReOffsetDT(s) ==
    MatchDate(s) /\ CharAt(s, 11, {"T", " ", "t"}) /\ \E e \in TimeEnds(s, 12) : MatchOffsetToEnd(s, e)

dtReLocalDT(s) ==
    MatchDate(s) /\ CharAt(s, 11, {"T", " ", "t"}) /\ (Len(s) + 1) \in TimeEnds(s, 12)

dtReLocalDate(s) == MatchDate(s) /\ Len(s) = 10

dtReLocalTime(s) == (Len(s) + 1) \in TimeEnds(s, 1)

\* isLeapYear with every fourth year a leap year
isLeapYear_everyFourth(y) == y % 4 = 0

isLeapYear(y) == y % 4 = 0 /\ (y % 100 # 0 \/ y % 400 = 0)

daysInMonth == <<31, 28, 31, 30, 31, 30, 31, 31, 30, 31, 30, 31>>

checkDateRanges(parts) ==
    LET year  == Atoi(parts[1])
        month == Atoi(parts[2])
        day   == Atoi(parts[3])
    IN  IF month < 1 \/ month > 12 THEN "month out of range"
        ELSE IF day < 1 THEN "day out of range"
        ELSE IF day > (IF month = 2 /\ isLeapYear(year) THEN 29 ELSE daysInMonth[month])
             THEN "day out of range for month"
        ELSE ""

\* validateDateParts with checkDateDigitCounts
validateDateParts(s) ==
    LET parts == Split(s, "-") IN
    IF Len(parts) # 3 THEN "invalid date"
    ELSE IF Len(parts[1]) # 4 THEN "year must be 4 digits"
    ELSE IF Len(parts[2]) # 2 THEN "month must be 2 digits"
    ELSE IF Len(parts[3]) # 2 THEN "day must be 2 digits"
    ELSE checkDateRanges(parts)

checkTimeRanges(parts) ==
    IF Atoi(parts[1]) > 23 THEN "hour out of range"
    ELSE IF Atoi(parts[2]) > 59 THEN "minute out of range"
    ELSE IF Len(parts) = 3 /\ Atoi(parts[3]) > 60 THEN "second out of range"
    ELSE ""

\* validateTimeParts with checkTimeDigitCounts
validateTimeParts(s) ==
    LET frac  == IndexAny(s, {"."})
        main  == IF frac >= 0 THEN SubSeq(s, 1, frac) ELSE s
        parts == Split(main, ":")
    IN  IF frac >= 0 /\ Len(Tail1(s, frac + 2)) = 0 THEN "trailing dot in time"
        ELSE IF Len(parts) # 2 /\ Len(parts) # 3 THEN "time must have HH:MM or HH:MM:SS"
        ELSE IF Len(parts[1]) # 2 THEN "hour must be 2 digits"
        ELSE IF Len(parts[2]) # 2 THEN "minute must be 2 digits"
        ELSE IF Len(parts) = 3 /\ Len(parts[3]) # 2 THEN "second must be 2 digits"
        ELSE checkTimeRanges(parts)

\* strconv.Atoi succeeds: an optional sign and then decimal digits
IsAtoi(s) == LET d == stripSign(s) IN Len(d) > 0 /\ \A i \in 1..Len(d) : isDigit(d[i])

validateOffsetText(offset) ==
    LET parts == Split(offset, ":") IN
    IF Len(parts) # 2 THEN "invalid offset format"
    ELSE IF ~IsAtoi(parts[1]) THEN "invalid offset hour"
    ELSE IF ~IsAtoi(parts[2]) THEN "invalid offset minute"
    ELSE IF Atoi(stripSign(parts[1])) > 23 /\ parts[1][1] # "-" THEN "offset hour out of range"
    ELSE IF Atoi(stripSign(parts[2])) > 59 /\ parts[2][1] # "-" THEN "offset minute out of range"
    ELSE ""

stripOffset(timePart) ==
    LET z  == IndexAny(timePart, {"Z", "z"})
        pm == LastIndexAny(timePart, {"+", "-"})
    IN  IF z >= 0 THEN SubSeq(timePart, 1, z)
        ELSE IF pm > 0
             THEN IF validateOffsetText(Tail1(timePart, pm + 2)) # "" THEN timePart
                  ELSE SubSeq(timePart, 1, pm)
        ELSE timePart

validateDateTimeParts(text, hasOffset) ==
    LET sep       == IndexAny(text, {"T", "t", " "})
        datePart  == SubSeq(text, 1, sep)
        timePart0 == Tail1(text, sep + 2)
        timePart  == IF hasOffset THEN stripOffset(timePart0) ELSE timePart0
    IN  IF sep < 0 THEN "invalid datetime"
        ELSE IF validateDateParts(datePart) # "" THEN validateDateParts(datePart)
        ELSE validateTimeParts(timePart)

validateDateTimeText(text) ==
    IF dtReOffsetDT(text) THEN validateDateTimeParts(text, TRUE)
    ELSE IF dtReLocalDT(text) THEN validateDateTimeParts(text, FALSE)
    ELSE IF dtReLocalDate(text) THEN validateDateParts(text)
    ELSE IF dtReLocalTime(text) THEN validateTimeParts(text)
    ELSE "invalid datetime format"

\* ------------------------------------------------------------------ nodes
\* The CST lives in a heap: a sequence of node records, a node's identity
\* being its index.  A parent pointer is NIL, DOC (the Document) or an index.

NIL == 0
DOC == -1

EmptyNode ==
    [type |-> "", parent |-> NIL, text |-> <<>>,
     leading |-> <<>>, trailing |-> <<>>, newline |-> <<>>,
     keyParts |-> <<>>, rawKey |-> <<>>, preEq |-> <<>>, postEq |-> <<>>,
     val |-> NIL, rawVal |-> <<>>,
     rawHeader |-> <<>>, headerParts |-> <<>>, entries |-> <<>>, elements |-> <<>>]

newLeaf(nodeType, text) == [EmptyNode EXCEPT !.type = nodeType, !.text = text]

KeyPart(text, unquoted, isQuoted) ==
    [Text |-> text, Unquoted |-> unquoted, IsQuoted |-> isQuoted,
     DotBefore |-> <<>>, DotAfter |-> <<>>]

\* ----------------------------------------------------------------- parser
\* The parser is a record threaded through the parsing operators: the lexer's
\* source, position and valueMode, the current token, the heap being built,
\* an error flag, and the value the last operator returned (res).

\* rune(n) written to a string: the ASCII characters the model spells, and
\* a name for every other code point
Printable ==
    <<" ", "!", "\"", "#", "$", "%", "&", "'", "(", ")", "*", "+", ",", "-", ".", "/",
      "0", "1", "2", "3", "4", "5", "6", "7", "8", "9", ":", ";", "<", "=", ">", "?",
      "@", "A", "B", "C", "D", "E", "F", "G", "H", "I", "J", "K", "L", "M", "N", "O",
      "P", "Q", "R", "S", "T", "U", "V", "W", "X", "Y", "Z", "[", "\\", "]", "^", "_",
      GRAVE, "a", "b", "c", "d", "e", "f", "g", "h", "i", "j", "k", "l", "m", "n", "o",
      "p", "q", "r", "s", "t", "u", "v", "w", "x", "y", "z", "{", "|", "}", "~">>

Rune(n) ==
    IF n >= 32 /\ n <= 126 THEN Printable[n - 31]
    ELSE CASE n = 0 -> NUL [] n = 8 -> BS [] n = 9 -> "\t" [] n = 10 -> "\n"
           [] n = 12 -> "\f" [] n = 13 -> "\r" [] n = 27 -> ESC [] n = 127 -> DEL
           [] OTHER -> "U+" \o ToString(n)

\* i is the position being read
RECURSIVE parserProcessBasicEscapes(_, _)
parserProcessBasicEscapes(s, i) ==
    IF i > Len(s) THEN <<>>
    ELSE IF s[i] # "\\" THEN <<s[i]>> \o parserProcessBasicEscapes(s, i + 1)
    ELSE IF i + 1 > Len(s) THEN <<"\\">>
    ELSE LET c      == s[i + 1]
             digits == CASE c = "x" -> 2 [] c = "u" -> 4 [] c = "U" -> 8 [] OTHER -> 0
             hex    == SubSeq(s, i + 2, i + 1 + digits)
         IN  IF c = "b" THEN <<BS>> \o parserProcessBasicEscapes(s, i + 2)
             ELSE IF c = "t" THEN <<"\t">> \o parserProcessBasicEscapes(s, i + 2)
             ELSE IF c = "n" THEN <<"\n">> \o parserProcessBasicEscapes(s, i + 2)
             ELSE IF c = "f" THEN <<"\f">> \o parserProcessBasicEscapes(s, i + 2)
             ELSE IF c = "r" THEN <<"\r">> \o parserProcessBasicEscapes(s, i + 2)
             ELSE IF c = "\"" THEN <<"\"">> \o parserProcessBasicEscapes(s, i + 2)
             ELSE IF c = "\\" THEN <<"\\">> \o parserProcessBasicEscapes(s, i + 2)
             ELSE IF c = "e" THEN <<ESC>> \o parserProcessBasicEscapes(s, i + 2)
             ELSE IF digits > 0
                  THEN IF i + digits < Len(s) /\ \A j \in 1..digits : isHexDigit(hex[j])
                       THEN <<Rune(ParseHex(hex))>> \o parserProcessBasicEscapes(s, i + 2 + digits)
                       ELSE <<"\\", c>> \o parserProcessBasicEscapes(s, i + 2)
             ELSE <<"\\", c>> \o parserProcessBasicEscapes(s, i + 2)

unquoteBasicStr(s) ==
    IF Len(s) < 2 THEN s ELSE parserProcessBasicEscapes(SubSeq(s, 2, Len(s) - 1), 1)

unquoteLiteralStr(s) == IF Len(s) < 2 THEN s ELSE SubSeq(s, 2, Len(s) - 1)

\* The lexer is a pure function of the source, the position and valueMode;
\* the parser carries it as the table lex and reads the token it asks for.
newParser(source) ==
    LET start(lex) == [source |-> source, lex |-> lex, pos |-> lex[1, FALSE].end,
                       valueMode |-> FALSE, cur |-> lex[1, FALSE], heap |-> <<>>,
                       err |-> FALSE, res |-> NIL]
    IN  start([pos \in 1..(Len(source) + 1), valueMode \in BOOLEAN |->
                  Next(source, pos, valueMode)])

advance(p) ==
    LET got(t) == [p EXCEPT !.cur = t, !.pos = t.end] IN got(p.lex[p.pos, p.valueMode])

at(p, t) == p.cur.type = t

\* return with an error / with a value / with a newly allocated node
Fail(p) == [p EXCEPT !.err = TRUE]

Ret(p, v) == [p EXCEPT !.res = v]

Alloc(p, node) == [p EXCEPT !.heap = Append(@, node), !.res = Len(p.heap) + 1]

\* "if the current token is whitespace, keep its text and advance"
wsText(p) == IF at(p, "TokWhitespace") THEN p.cur.text ELSE <<>>

skipWhitespace(p) == IF at(p, "TokWhitespace") THEN advance(p) ELSE p

\* A parsing function that calls others is written as a chain of operators,
\* f, f_step, ..., each taking the parser as the previous step left it.

RECURSIVE skipWsCommentNewline(_)
skipWsCommentNewline(p) ==
    IF p.cur.type \in {"TokWhitespace", "TokComment", "TokNewline"}
    THEN skipWsCommentNewline(advance(p))
    ELSE p

RECURSIVE collectLeadingTrivia(_, _)
collectLeadingTrivia(p, nodes) ==
    IF p.cur.type \in {"TokWhitespace", "TokNewline", "TokComment"}
    THEN IF at(p, "TokComment") /\ validateCommentText(p.cur.text) # "" THEN Fail(advance(p))
         ELSE collectLeadingTrivia(
                  Alloc(advance(p),
                        newLeaf(IF at(p, "TokComment") THEN "NodeComment" ELSE "NodeWhitespace",
                                p.cur.text)),
                  Append(nodes, Len(p.heap) + 1))
    ELSE Ret(p, nodes)

collectHeaderTrailing_newline(p2, ns) ==
    IF at(p2, "TokNewline") THEN Ret(advance(p2), [nodes |-> ns, nl |-> p2.cur.text])
    ELSE IF at(p2, "TokEOF") THEN Ret(p2, [nodes |-> ns, nl |-> <<>>])
    ELSE Fail(p2)

collectHeaderTrailing_comment(p1, ns) ==
    IF ~at(p1, "TokComment") THEN collectHeaderTrailing_newline(p1, ns)
    ELSE IF validateCommentText(p1.cur.text) # "" THEN Fail(advance(p1))
    ELSE collectHeaderTrailing_newline(
             Alloc(advance(p1), newLeaf("NodeComment", p1.cur.text)),
             Append(ns, Len(p1.heap) + 1))

\* res is [nodes, nl]
collectHeaderTrailing(p) ==
    IF at(p, "TokWhitespace")
    THEN collectHeaderTrailing_comment(
             Alloc(advance(p), newLeaf("NodeWhitespace", p.cur.text)), <<Len(p.heap) + 1>>)
    ELSE collectHeaderTrailing_comment(p, <<>>)

addTrailingTrivia_store(p1, kv) ==
    IF p1.err THEN p1
    ELSE [p1 EXCEPT !.heap[kv].trailing = @ \o p1.res.nodes,
                    !.heap[kv].newline = p1.res.nl]

\* the same three steps as collectHeaderTrailing, stored on the key-value
addTrailingTrivia(p, kv) == addTrailingTrivia_store(collectHeaderTrailing(p), kv)

parseSimpleKey(p) ==
    LET tok == p.cur IN
    IF tok.type = "TokBareKey"
    THEN IF \E i \in 1..Len(tok.text) : ~isBareKeyChar(tok.text[i]) THEN Fail(advance(p))
         ELSE Ret(advance(p), KeyPart(tok.text, tok.text, FALSE))
    ELSE IF tok.type \in {"TokBoolean", "TokInteger", "TokFloat", "TokDateTime"}
         THEN Ret(advance(p), KeyPart(tok.text, tok.text, FALSE))
    ELSE IF tok.type \in {"TokBasicString", "TokLiteralString"}
         THEN IF validateStringText(tok.text) # "" THEN Fail(advance(p))
              ELSE IF tok.type = "TokBasicString"
                   THEN Ret(advance(p), KeyPart(tok.text, unquoteBasicStr(tok.text), TRUE))
              ELSE Ret(advance(p), KeyPart(tok.text, unquoteLiteralStr(tok.text), TRUE))
    ELSE Fail(p)

RECURSIVE parseKeyLoop(_, _, _)

parseKeyLoop_part(p4, parts, raw, dotBefore, dotAfter) ==
    IF p4.err THEN p4
    ELSE parseKeyLoop(p4,
                      Append(parts, [p4.res EXCEPT !.DotBefore = dotBefore,
                                                   !.DotAfter = dotAfter]),
                      raw \o dotBefore \o <<".">> \o dotAfter \o p4.res.Text)

\* p1 is the parser after the whitespace before the dot, p that before it
parseKeyLoop_dot(p1, p, parts, raw) ==
    IF ~at(p1, "TokDot") THEN Ret(p1, [parts |-> parts, raw |-> raw \o wsText(p)])
    ELSE parseKeyLoop_part(parseSimpleKey(skipWhitespace(advance(p1))), parts, raw,
                           wsText(p), wsText(advance(p1)))

\* the loop of parseKey
parseKeyLoop(p, parts, raw) ==
    IF at(p, "TokDot") \/ (at(p, "TokWhitespace") /\ peekForDot(p.source, p.pos))
    THEN parseKeyLoop_dot(skipWhitespace(p), p, parts, raw)
    ELSE Ret(p, [parts |-> parts, raw |-> raw])

parseKey_first(p1) == IF p1.err THEN p1 ELSE parseKeyLoop(p1, <<p1.res>>, p1.res.Text)

\* res is [parts, raw]
parseKey(p) == parseKey_first(parseSimpleKey(p))

parseKeyInHeader_key(p2, ws1) ==
    IF p2.err THEN p2
    ELSE Ret(skipWhitespace(p2),
             [parts |-> p2.res.parts, raw |-> ws1 \o p2.res.raw \o wsText(p2)])

\* res is [parts, raw], raw with the whitespace around the key
parseKeyInHeader(p) == parseKeyInHeader_key(parseKey(skipWhitespace(p)), wsText(p))

\* the TableNode or ArrayOfTables that both header bodies end with
parseHeader_node(p2, key, trivia, nodeType) ==
    IF p2.err THEN p2
    ELSE Alloc(p2, [EmptyNode EXCEPT !.type = nodeType, !.leading = trivia,
                                     !.rawHeader = key.raw,
                                     !.headerParts = key.parts,
                                     !.trailing = p2.res.nodes,
                                     !.newline = p2.res.nl])

parseTableHeaderBody_close(p1, trivia) ==
    IF p1.err THEN p1
    ELSE IF ~at(p1, "TokRBracket") THEN Fail(p1)
    ELSE parseHeader_node(collectHeaderTrailing(advance(p1)), p1.res, trivia, "NodeTable")

parseTableHeaderBody(p, trivia) == parseTableHeaderBody_close(parseKeyInHeader(p), trivia)

parseArrayOfTablesBody_close(p1, trivia) ==
    IF p1.err THEN p1
    ELSE IF ~at(p1, "TokRBracket") THEN Fail(p1)
    ELSE IF ~at(advance(p1), "TokRBracket") THEN Fail(advance(p1))
    ELSE parseHeader_node(collectHeaderTrailing(advance(advance(p1))), p1.res, trivia,
                          "NodeArrayOfTables")

parseArrayOfTablesBody(p, trivia) == parseArrayOfTablesBody_close(parseKeyInHeader(p), trivia)

parseTableOrArrayHeader(p, trivia) ==
    IF at(advance(p), "TokLBracket") THEN parseArrayOfTablesBody(advance(advance(p)), trivia)
    ELSE parseTableHeaderBody(advance(p), trivia)

RECURSIVE parseValue(_), parseArrayElements(_, _), parseInlineTableEntries(_, _)

parseKeyVal_node(p5, key, preEq, postEq, trivia) ==
    IF p5.err THEN p5
    ELSE Alloc([p5 EXCEPT !.valueMode = FALSE],
               [EmptyNode EXCEPT !.type = "NodeKeyValue",
                                 !.leading = trivia,
                                 !.keyParts = key.parts,
                                 !.rawKey = key.raw,
                                 !.preEq = preEq,
                                 !.postEq = postEq,
                                 !.val = p5.res,
                                 !.rawVal = p5.heap[p5.res].text])

\* p3 is the parser after the equals sign
parseKeyVal_value(p3, key, preEq, trivia) ==
    parseKeyVal_node(parseValue(skipWhitespace(p3)), key, preEq, wsText(p3), trivia)

parseKeyVal_key(p1, trivia) ==
    IF p1.err THEN p1
    ELSE IF ~at(skipWhitespace(p1), "TokEquals") THEN Fail(skipWhitespace(p1))
    ELSE parseKeyVal_value(advance([skipWhitespace(p1) EXCEPT !.valueMode = TRUE]),
                           p1.res, wsText(p1), trivia)

\* res is the new KeyValue
parseKeyVal(p, trivia) == parseKeyVal_key(parseKey(p), trivia)

\* p is the parser at the opening bracket, p1 that after the elements
parseArray_close(p1, p) ==
    IF p1.err THEN p1
    ELSE IF ~at(p1, "TokRBracket") THEN Fail(p1)
    ELSE Alloc(advance(p1),
               [EmptyNode EXCEPT !.type = "NodeArray",
                                 !.elements = p1.res,
                                 !.text = SubSeq(p.source, p.cur.pos,
                                                 p1.cur.pos + Len(p1.cur.text) - 1)])

parseArray(p) ==
    parseArray_close(parseArrayElements(skipWsCommentNewline(advance(p)), <<>>), p)

parseArrayElements_separator(p2, elements) ==
    IF at(p2, "TokComma") THEN parseArrayElements(skipWsCommentNewline(advance(p2)), elements)
    ELSE IF ~at(p2, "TokRBracket") THEN Fail(p2)
    ELSE parseArrayElements(p2, elements)

\* parseArray without "restore after parseValue"
parseArrayElements_value_noRestore(p1, elements) ==
    IF p1.err THEN p1
    ELSE parseArrayElements_separator(skipWsCommentNewline(p1), Append(elements, p1.res))

parseArrayElements_value(p1, elements) ==
    IF p1.err THEN p1
    ELSE parseArrayElements_separator(skipWsCommentNewline([p1 EXCEPT !.valueMode = TRUE]),
                                      Append(elements, p1.res))

\* the loop of parseArray; res is the elements
parseArrayElements(p, elements) ==
    IF ~at(p, "TokRBracket") /\ ~at(p, "TokEOF")
    THEN parseArrayElements_value(parseValue([p EXCEPT !.valueMode = TRUE]), elements)
    ELSE Ret(p, elements)

\* p is the parser at the opening brace, p1 that after the entries
parseInlineTable_close(p1, p) ==
    IF p1.err THEN p1
    ELSE IF ~at(p1, "TokRBrace") THEN Fail(p1)
    ELSE Alloc(advance(p1),
               [EmptyNode EXCEPT !.type = "NodeInlineTable",
                                 !.entries = p1.res,
                                 !.text = SubSeq(p.source, p.cur.pos,
                                                 p1.cur.pos + Len(p1.cur.text) - 1)])

parseInlineTable(p) ==
    parseInlineTable_close(
        parseInlineTableEntries(skipWsCommentNewline(advance([p EXCEPT !.valueMode = FALSE])),
                                <<>>), p)

parseInlineTableEntries_separator(p2, entries) ==
    IF at(p2, "TokComma")
    THEN parseInlineTableEntries(skipWsCommentNewline(advance(p2)), entries)
    ELSE IF ~at(p2, "TokRBrace") THEN Fail(p2)
    ELSE parseInlineTableEntries(p2, entries)

parseInlineTableEntries_entry(p1, entries) ==
    IF p1.err THEN p1
    ELSE parseInlineTableEntries_separator(skipWsCommentNewline(p1), Append(entries, p1.res))

\* the loop of parseInlineTable; res is the entries
parseInlineTableEntries(p, entries) ==
    IF ~at(p, "TokRBrace") /\ ~at(p, "TokEOF")
    THEN parseInlineTableEntries_entry(parseKeyVal(p, <<>>), entries)
    ELSE Ret(p, entries)

\* parseValue with parseStringValue, parseNumberValue and parseDateTimeValue
parseValue(p) ==
    LET tok == p.cur IN
    IF tok.type \in {"TokBasicString", "TokMultiLineBasicStr",
                     "TokLiteralString", "TokMultiLineLiteralStr"}
    THEN IF validateStringText(tok.text) # "" THEN Fail(advance(p))
         ELSE Alloc(advance(p), newLeaf("NodeString", tok.text))
    ELSE IF tok.type \in {"TokInteger", "TokFloat"}
         THEN IF validateNumberText(tok.text) # "" THEN Fail(advance(p))
              ELSE Alloc(advance(p), newLeaf("NodeNumber", tok.text))
    ELSE IF tok.type = "TokBoolean" THEN Alloc(advance(p), newLeaf("NodeBoolean", tok.text))
    ELSE IF tok.type = "TokDateTime"
         THEN IF validateDateTimeText(tok.text) # "" THEN Fail(advance(p))
              ELSE Alloc(advance(p), newLeaf("NodeDateTime", tok.text))
    ELSE IF tok.type = "TokLBracket" THEN parseArray(p)
    ELSE IF tok.type = "TokLBrace" THEN parseInlineTable(p)
    ELSE Fail(p)

\* lastKV: the last entry when it is a KeyValue, else NIL
lastKV(heap, entries) ==
    IF Len(entries) = 0 THEN NIL
    ELSE IF heap[entries[Len(entries)]].type = "NodeKeyValue" THEN entries[Len(entries)]
    ELSE NIL

\* attachTriviaToLast without its cases for a table and an array of tables
attachTriviaToLast_topLevelOnly(heap, nodes) ==
    IF Len(nodes) = 0 THEN NIL
    ELSE LET last == nodes[Len(nodes)] IN
         IF heap[last].type = "NodeKeyValue" THEN last
         ELSE NIL

\* attachTriviaToLast: the key-value that receives the trivia, or NIL
attachTriviaToLast(heap, nodes) ==
    IF Len(nodes) = 0 THEN NIL
    ELSE LET last == nodes[Len(nodes)] IN
         IF heap[last].type \in {"NodeTable", "NodeArrayOfTables"} THEN lastKV(heap, heap[last].entries)
         ELSE IF heap[last].type = "NodeKeyValue" THEN last
         ELSE NIL

attachOrphanTrivia_to(kv, heap, nodes, ct, trivia) ==
    IF Len(trivia) = 0 THEN [heap |-> heap, nodes |-> nodes]
    ELSE IF kv # NIL
         THEN [heap |-> [heap EXCEPT ![kv].trailing = @ \o trivia], nodes |-> nodes]
    ELSE IF ct # NIL
         THEN [heap |-> [heap EXCEPT ![ct].entries = @ \o trivia], nodes |-> nodes]
    ELSE [heap |-> heap, nodes |-> nodes \o trivia]

\* the heap and the document's nodes after the trivia at the end of input
attachOrphanTrivia(heap, nodes, ct, trivia) ==
    attachOrphanTrivia_to(attachTriviaToLast(heap, nodes), heap, nodes, ct, trivia)

RECURSIVE parse(_, _, _)

parse_orphans(p1, r) == [p1 EXCEPT !.heap = r.heap, !.res = r.nodes]

parse_header(p2, nodes) == IF p2.err THEN p2 ELSE parse(p2, Append(nodes, p2.res), p2.res)

parse_trailing(p3, kv, nodes, ct) ==
    IF p3.err THEN p3
    ELSE IF ct # NIL
         THEN parse([p3 EXCEPT !.heap[kv].parent = NIL,
                               !.heap[ct].entries = Append(@, kv)], nodes, ct)
    ELSE parse([p3 EXCEPT !.heap[kv].parent = DOC], Append(nodes, kv), ct)

parse_keyval(p2, nodes, ct) ==
    IF p2.err THEN p2 ELSE parse_trailing(addTrailingTrivia(p2, p2.res), p2.res, nodes, ct)

parse_item(p1, nodes, ct) ==
    IF p1.err THEN p1
    ELSE IF at(p1, "TokEOF")
         THEN parse_orphans(p1, attachOrphanTrivia(p1.heap, nodes, ct, p1.res))
    ELSE IF at(p1, "TokLBracket") THEN parse_header(parseTableOrArrayHeader(p1, p1.res), nodes)
    ELSE parse_keyval(parseKeyVal(p1, p1.res), nodes, ct)

\* parser.parse: nodes is doc.Nodes so far, ct the current table (or NIL);
\* res is doc.Nodes
parse(p, nodes, ct) ==
    IF at(p, "TokEOF") THEN Ret(p, nodes) ELSE parse_item(collectLeadingTrivia(p, <<>>), nodes, ct)

\* ------------------------------------------------------------- serializer

Text(heap, n) ==
    LET v == heap[n] IN
    IF v.type = "NodeKeyValue"
    THEN v.rawKey \o v.preEq \o <<"=">> \o v.postEq \o (IF v.val # NIL THEN heap[v.val].text ELSE <<>>)
    ELSE IF v.type = "NodeTable" THEN <<"[">> \o v.rawHeader \o <<"]">>
    ELSE IF v.type = "NodeArrayOfTables" THEN <<"[", "[">> \o v.rawHeader \o <<"]", "]">>
    ELSE v.text

RECURSIVE serializeTrivia(_, _)
serializeTrivia(heap, nodes) ==
    IF nodes = <<>> THEN <<>> ELSE Text(heap, Head(nodes)) \o serializeTrivia(heap, Tail(nodes))

serializeKeyValue(heap, kv) ==
    serializeTrivia(heap, heap[kv].leading) \o Text(heap, kv)
        \o serializeTrivia(heap, heap[kv].trailing) \o heap[kv].newline

\* serializeNode for an entry of a table: a key-value or a trivia node
RECURSIVE serializeEntries(_, _)
serializeEntries(heap, entries) ==
    IF entries = <<>> THEN <<>>
    ELSE (IF heap[Head(entries)].type = "NodeKeyValue"
          THEN serializeKeyValue(heap, Head(entries))
          ELSE Text(heap, Head(entries)))
         \o serializeEntries(heap, Tail(entries))

\* serializeTableNode and serializeArrayOfTables
serializeTableNode(heap, t) ==
    serializeTrivia(heap, heap[t].leading) \o Text(heap, t)
        \o serializeTrivia(heap, heap[t].trailing) \o heap[t].newline
        \o serializeEntries(heap, heap[t].entries)

serializeNode(heap, n) ==
    IF heap[n].type = "NodeKeyValue" THEN serializeKeyValue(heap, n)
    ELSE IF heap[n].type \in {"NodeTable", "NodeArrayOfTables"} THEN serializeTableNode(heap, n)
    ELSE Text(heap, n)

\* Document.String
RECURSIVE String(_, _)
String(heap, nodes) ==
    IF nodes = <<>> THEN <<>> ELSE serializeNode(heap, Head(nodes)) \o String(heap, Tail(nodes))

\* ------------------------------------------------------------- validator
\* tableState: seven sets of paths (a map[string]bool holds the paths mapped
\* to true), and err, set by the first check that fails.

newTableState ==
    [explicitTables |-> {}, dottedKeyTables |-> {}, implicitTables |-> {},
     inlinePaths |-> {}, staticArrays |-> {}, aotPaths |-> {}, scalarPaths |-> {},
     err |-> FALSE]

RECURSIVE keyPartsToPath(_)
keyPartsToPath(parts) ==
    IF parts = <<>> THEN <<>>
    ELSE LET last == parts[Len(parts)]
             text == IF Contains(last.Unquoted, ".")
                     THEN <<"\"">> \o last.Unquoted \o <<"\"">>
                     ELSE last.Unquoted
         IN  IF Len(parts) = 1 THEN text
             ELSE keyPartsToPath(SubSeq(parts, 1, Len(parts) - 1)) \o <<".">> \o text

buildFullPath(baseParts, keyParts) == keyPartsToPath(baseParts \o keyParts)

\* the paths of the proper prefixes parts[:i], 1 <= i < len(parts)
ParentPaths(parts) == {keyPartsToPath(SubSeq(parts, 1, i)) : i \in 1..(Len(parts) - 1)}

\* checkTablePathConflicts without the test for an array of tables
checkTablePathConflicts_noAOT(ts, path) ==
    \/ path \in ts.explicitTables
    \/ path \in ts.dottedKeyTables
    \/ path \in ts.scalarPaths
    \/ path \in ts.inlinePaths
    \/ path \in ts.staticArrays

checkTablePathConflicts(ts, path) ==
    \/ path \in ts.explicitTables
    \/ path \in ts.aotPaths
    \/ path \in ts.dottedKeyTables
    \/ path \in ts.scalarPaths
    \/ path \in ts.inlinePaths
    \/ path \in ts.staticArrays

\* checkIntermediatePaths without the test for a value
checkIntermediatePaths_noScalar(ts, parts) ==
    \E parentPath \in {keyPartsToPath(SubSeq(parts, 1, i)) : i \in 1..(Len(parts) - 1)} :
        \/ parentPath \in ts.inlinePaths
        \/ parentPath \in ts.staticArrays

\* checkIntermediatePaths and checkIntermediatePathsAOT (the same tests)
checkIntermediatePaths(ts, parts) ==
    \E parentPath \in ParentPaths(parts) :
        \/ parentPath \in ts.scalarPaths
        \/ parentPath \in ts.inlinePaths
        \/ parentPath \in ts.staticArrays

markParentImplicit(ts, parts) ==
    [ts EXCEPT !.implicitTables =
        @ \cup {pp \in ParentPaths(parts) : pp \notin ts.explicitTables /\ pp \notin ts.aotPaths}]

\* checkAOTPathConflicts without the test for an implicit table
checkAOTPathConflicts_noImplicit(ts, path) ==
    \/ path \in ts.explicitTables
    \/ path \in ts.scalarPaths
    \/ path \in ts.inlinePaths
    \/ path \in ts.staticArrays
    \/ path \in ts.dottedKeyTables

checkAOTPathConflicts(ts, path) ==
    \/ path \in ts.explicitTables
    \/ path \in ts.scalarPaths
    \/ path \in ts.inlinePaths
    \/ path \in ts.staticArrays
    \/ path \in ts.dottedKeyTables
    \/ (path \in ts.implicitTables /\ path \notin ts.aotPaths)

\* clearPrefix
clearPrefix(m, prefix) == {k \in m : ~HasPrefix(k, prefix)}

\* clearSubScope that leaves the values of the sub-scope in place
clearSubScope_keepsScalars(ts, path) ==
    [ts EXCEPT !.explicitTables  = clearPrefix(@, path \o <<".">>),
               !.dottedKeyTables = clearPrefix(@, path \o <<".">>),
               !.inlinePaths     = clearPrefix(@, path \o <<".">>),
               !.staticArrays    = clearPrefix(@, path \o <<".">>)]

clearSubScope(ts, path) ==
    LET prefix == path \o <<".">> IN
    [ts EXCEPT !.explicitTables  = clearPrefix(@, prefix),
               !.dottedKeyTables = clearPrefix(@, prefix),
               !.scalarPaths     = clearPrefix(@, prefix),
               !.inlinePaths     = clearPrefix(@, prefix),
               !.staticArrays    = clearPrefix(@, prefix)]

\* checkDottedIntermediate without the test for an explicit table
checkDottedIntermediate_noExplicit(ts, path) ==
    \/ path \in ts.inlinePaths
    \/ path \in ts.scalarPaths
    \/ path \in ts.aotPaths

checkDottedIntermediate(ts, path) ==
    \/ path \in ts.inlinePaths
    \/ path \in ts.scalarPaths
    \/ path \in ts.explicitTables
    \/ path \in ts.aotPaths

\* checkLeafConflict without the test for a dotted-key table
checkLeafConflict_noDotted(ts, path) ==
    \/ path \in ts.scalarPaths
    \/ path \in ts.inlinePaths
    \/ path \in ts.aotPaths

checkLeafConflict(ts, path) ==
    \/ path \in ts.scalarPaths
    \/ path \in ts.inlinePaths
    \/ path \in ts.dottedKeyTables
    \/ path \in ts.aotPaths

\* markInlinePaths: the set of paths it adds to inlinePaths
RECURSIVE markInlinePaths(_, _, _), markInlineEntries(_, _, _), markInlineElements(_, _, _)
markInlinePaths(heap, path, val) ==
    {path} \cup
    (IF heap[val].type = "NodeInlineTable" THEN markInlineEntries(heap, path, heap[val].entries)
     ELSE IF heap[val].type = "NodeArray" THEN markInlineElements(heap, path, heap[val].elements)
     ELSE {})

markInlineEntries(heap, path, entries) ==
    IF entries = <<>> THEN {}
    ELSE markInlinePaths(heap, path \o <<".">> \o keyPartsToPath(heap[Head(entries)].keyParts),
                         heap[Head(entries)].val)
         \cup markInlineEntries(heap, path, Tail(entries))

markInlineElements(heap, path, elements) ==
    IF elements = <<>> THEN {}
    ELSE (IF heap[Head(elements)].type = "NodeInlineTable"
          THEN markInlineEntries(heap, path, heap[Head(elements)].entries)
          ELSE {})
         \cup markInlineElements(heap, path, Tail(elements))

markLeafPath(heap, ts, path, val) ==
    IF heap[val].type = "NodeInlineTable"
    THEN [ts EXCEPT !.inlinePaths = @ \cup markInlinePaths(heap, path, val)]
    ELSE IF heap[val].type = "NodeArray"
         THEN [ts EXCEPT !.inlinePaths = @ \cup markInlinePaths(heap, path, val),
                         !.staticArrays = @ \cup {path}]
    ELSE [ts EXCEPT !.scalarPaths = @ \cup {path}]

\* checkInlineTableKeys: TRUE when it reports an error
RECURSIVE checkInlineTableKeys(_, _, _)
checkInlineTableKeys(heap, entries, seen) ==
    IF entries = <<>> THEN FALSE
    ELSE LET parts   == heap[Head(entries)].keyParts
             fullKey == keyPartsToPath(parts)
         IN  IF fullKey \in seen THEN TRUE
             ELSE IF \E prefix \in ParentPaths(parts) : prefix \in (seen \cup {fullKey}) THEN TRUE
             ELSE checkInlineTableKeys(heap, Tail(entries), seen \cup {fullKey})

\* the first loop of checkKeyValue, from intermediate i on
RECURSIVE checkIntermediates(_, _, _, _)
checkIntermediates(ts, baseParts, keyParts, i) ==
    IF i > Len(keyParts) - 1 THEN ts
    ELSE LET intermediatePath == buildFullPath(baseParts, SubSeq(keyParts, 1, i)) IN
         IF checkDottedIntermediate(ts, intermediatePath) THEN [ts EXCEPT !.err = TRUE]
         ELSE checkIntermediates([ts EXCEPT !.dottedKeyTables = @ \cup {intermediatePath}],
                                 baseParts, keyParts, i + 1)

checkKeyValue(heap, ts, baseParts, kv) ==
    LET ts1      == checkIntermediates(ts, baseParts, heap[kv].keyParts, 1)
        leafPath == buildFullPath(baseParts, heap[kv].keyParts)
        ts2      == markLeafPath(heap, ts1, leafPath, heap[kv].val)
    IN  IF ts1.err THEN ts1
        ELSE IF checkLeafConflict(ts1, leafPath) THEN [ts1 EXCEPT !.err = TRUE]
        ELSE IF /\ heap[heap[kv].val].type = "NodeInlineTable"
                /\ checkInlineTableKeys(heap, heap[heap[kv].val].entries, {})
             THEN [ts2 EXCEPT !.err = TRUE]
        ELSE ts2

\* the loop over the entries of a table or array of tables
RECURSIVE checkEntries(_, _, _, _)
checkEntries(heap, ts, baseParts, entries) ==
    IF entries = <<>> \/ ts.err THEN ts
    ELSE IF heap[Head(entries)].type = "NodeKeyValue"
         THEN checkEntries(heap, checkKeyValue(heap, ts, baseParts, Head(entries)),
                           baseParts, Tail(entries))
    ELSE checkEntries(heap, ts, baseParts, Tail(entries))

checkTable(heap, ts, node) ==
    LET parts == heap[node].headerParts
        path  == keyPartsToPath(parts)
    IN  IF checkTablePathConflicts(ts, path) THEN [ts EXCEPT !.err = TRUE]
        ELSE IF checkIntermediatePaths(ts, parts) THEN [ts EXCEPT !.err = TRUE]
        ELSE checkEntries(heap,
                          markParentImplicit([ts EXCEPT !.explicitTables = @ \cup {path}], parts),
                          parts, heap[node].entries)

checkAOT(heap, ts, node) ==
    LET parts == heap[node].headerParts
        path  == keyPartsToPath(parts)
    IN  IF checkAOTPathConflicts(ts, path) THEN [ts EXCEPT !.err = TRUE]
        ELSE IF checkIntermediatePaths(ts, parts) THEN [ts EXCEPT !.err = TRUE]
        ELSE checkEntries(heap,
                          clearSubScope(markParentImplicit([ts EXCEPT !.aotPaths = @ \cup {path}],
                                                           parts), path),
                          parts, heap[node].entries)

\* docValidator.validate: the state after the nodes, err set by the first error
RECURSIVE validate(_, _, _)
validate(heap, ts, nodes) ==
    IF nodes = <<>> \/ ts.err THEN ts
    ELSE LET n == Head(nodes) IN
         IF heap[n].type = "NodeKeyValue"
         THEN validate(heap, checkKeyValue(heap, ts, <<>>, n), Tail(nodes))
         ELSE IF heap[n].type = "NodeTable"
              THEN validate(heap, checkTable(heap, ts, n), Tail(nodes))
         ELSE IF heap[n].type = "NodeArrayOfTables"
              THEN validate(heap, checkAOT(heap, ts, n), Tail(nodes))
         ELSE validate(heap, ts, Tail(nodes))

\* validateDocument: TRUE when it returns an error
validateDocument(heap, nodes) == validate(heap, newTableState, nodes).err

Parse_validate(p) ==
    IF p.err THEN [err |-> TRUE, heap |-> <<>>, nodes |-> <<>>]
    ELSE IF validateDocument(p.heap, p.res) THEN [err |-> TRUE, heap |-> <<>>, nodes |-> <<>>]
    ELSE [err |-> FALSE, heap |-> p.heap, nodes |-> p.res]

\* Parse: err, or the heap and the nodes of the new Document
Parse(s) ==
    IF s = <<>> THEN [err |-> FALSE, heap |-> <<>>, nodes |-> <<>>]
    ELSE Parse_validate(parse(newParser(s), <<>>, NIL))

\* ------------------------------------------------------------ path helpers

\* parsePathBasicString: i is the position of the opening quote
RECURSIVE parsePathBasicString(_, _, _)
parsePathBasicString(path, start, i) ==
    IF i > Len(path)
    THEN [seg |-> parserProcessBasicEscapes(Tail1(path, start), 1), i |-> i]
    ELSE IF path[i] = "\\" /\ i + 1 <= Len(path) THEN parsePathBasicString(path, start, i + 2)
    ELSE IF path[i] = "\""
         THEN [seg |-> parserProcessBasicEscapes(SubSeq(path, start, i - 1), 1), i |-> i + 1]
    ELSE parsePathBasicString(path, start, i + 1)

parsePathSegment(path, i) ==
    IF i > Len(path) THEN [seg |-> <<>>, i |-> i]
    ELSE IF path[i] = "\"" THEN parsePathBasicString(path, i + 1, i + 1)
    ELSE IF path[i] = "'"
         THEN LET e == ScanUntil(path, i + 1, {"'"}) IN
              [seg |-> SubSeq(path, i + 1, e - 1), i |-> IF e > Len(path) THEN e ELSE e + 1]
    ELSE LET e == ScanWhile(path, i, LowerLetters \cup UpperLetters \cup Digits \cup {"-", "_"}) IN
         [seg |-> SubSeq(path, i, e - 1), i |-> e]

\* parseDottedPath from position i on.  On a byte that starts no segment and
\* is no dot the Go loop makes no progress and never returns; the paths of
\* this model hold no such byte, and the recursion stops there.
RECURSIVE parseDottedPath(_, _)
parseDottedPath(path, i) ==
    LET i1 == ScanWhile(path, i, {" ", "\t"}) IN
    IF i > Len(path) \/ i1 > Len(path) THEN <<>>
    ELSE LET r  == parsePathSegment(path, i1)
             i2 == ScanWhile(path, r.i, {" ", "\t"})
             i3 == IF i2 <= Len(path) /\ path[i2] = "." THEN i2 + 1 ELSE i2
         IN  IF i3 = i THEN <<r.seg>> ELSE <<r.seg>> \o parseDottedPath(path, i3)

matchKeyParts(parts, segs) ==
    /\ Len(parts) = Len(segs)
    /\ \A i \in 1..Len(parts) : parts[i].Unquoted = segs[i]

\* ----------------------------------------------------------- constructors
\* A constructor returns the heap with the new node, its id, and err.

New(heap, node) == [heap |-> Append(heap, node), id |-> Len(heap) + 1, err |-> FALSE]

NoNode(heap) == [heap |-> heap, id |-> NIL, err |-> TRUE]

\* fmt.Sprintf("%d", v)
RECURSIVE FormatNat(_)
FormatNat(n) ==
    IF n < 10 THEN <<Printable[n + 17]>>
    ELSE FormatNat(n \div 10) \o <<Printable[(n % 10) + 17]>>

FormatInt(v) == IF v < 0 THEN <<"-">> \o FormatNat(0 - v) ELSE FormatNat(v)

NewInteger(heap, v) == New(heap, newLeaf("NodeNumber", FormatInt(v)))

NewBool(heap, v) ==
    New(heap, newLeaf("NodeBoolean",
                      IF v THEN <<"t", "r", "u", "e">> ELSE <<"f", "a", "l", "s", "e">>))

\* escapeBasicString, for the characters of the model's alphabet
RECURSIVE escapeBasicString(_)
escapeBasicString(s) ==
    IF s = <<>> THEN <<>>
    ELSE LET r == Head(s) IN
         (CASE r = "\\" -> <<"\\", "\\">>
            [] r = "\"" -> <<"\\", "\"">>
            [] r = BS   -> <<"\\", "b">>
            [] r = "\t" -> <<"\\", "t">>
            [] r = "\n" -> <<"\\", "n">>
            [] r = "\f" -> <<"\\", "f">>
            [] r = "\r" -> <<"\\", "r">>
            [] r = ESC  -> <<"\\", "u", "0", "0", "1", "B">>
            [] r = DEL  -> <<"\\", "u", "0", "0", "7", "F">>
            [] r = NUL  -> <<"\\", "u", "0", "0", "0", "0">>
            [] OTHER    -> <<r>>)
         \o escapeBasicString(Tail(s))

NewString(heap, s) ==
    New(heap, newLeaf("NodeString", <<"\"">> \o escapeBasicString(s) \o <<"\"">>))

\* TRUE when validateValueType returns an error
validateValueType(heap, val) ==
    \/ val = NIL
    \/ heap[val].type \notin {"NodeString", "NodeNumber", "NodeBoolean", "NodeDateTime",
                              "NodeArray", "NodeInlineTable"}

\* TRUE when validateDocumentNode returns an error
validateDocumentNode(heap, node) ==
    \/ node = NIL
    \/ heap[node].type \notin {"NodeKeyValue", "NodeTable", "NodeArrayOfTables",
                               "NodeComment", "NodeWhitespace"}

isTriviaNode(heap, n) == heap[n].type \in {"NodeComment", "NodeWhitespace"}

setNodeParent(heap, n, parent) ==
    IF heap[n].type \in {"NodeKeyValue", "NodeTable", "NodeArrayOfTables",
                         "NodeComment", "NodeWhitespace"}
    THEN [heap EXCEPT ![n].parent = parent]
    ELSE heap

setValueParent(heap, n, parent) ==
    IF n = NIL THEN heap
    ELSE IF heap[n].type \in {"NodeInlineTable", "NodeArray", "NodeString", "NodeNumber",
                              "NodeBoolean", "NodeDateTime"}
         THEN [heap EXCEPT ![n].parent = parent]
    ELSE heap

\* parseRawKey: err, or the key parts and the raw key without outer blanks
parseRawKey(raw) ==
    LET key(p2) == IF p2.err \/ ~at(skipWhitespace(p2), "TokEOF")
                   THEN [err |-> TRUE, parts |-> <<>>, raw |-> <<>>]
                   ELSE [err |-> FALSE, parts |-> p2.res.parts, raw |-> p2.res.raw]
    IN  IF \A i \in 1..Len(raw) : raw[i] \in {" ", "\t", "\n", "\r", "\f"}
        THEN [err |-> TRUE, parts |-> <<>>, raw |-> <<>>]
        ELSE key(parseKey(skipWhitespace(newParser(raw))))

NewKeyValue(heap, rawKey, val) ==
    LET made(n) == [n EXCEPT !.heap = setValueParent(n.heap, val, n.id)]
        node(k) == IF k.err THEN NoNode(heap)
                   ELSE made(New(heap, [EmptyNode EXCEPT !.type = "NodeKeyValue",
                                                         !.keyParts = k.parts,
                                                         !.rawKey = k.raw,
                                                         !.preEq = <<" ">>,
                                                         !.postEq = <<" ">>,
                                                         !.val = val,
                                                         !.rawVal = Text(heap, val),
                                                         !.newline = <<"\n">>]))
    IN  IF validateValueType(heap, val) THEN NoNode(heap) ELSE node(parseRawKey(rawKey))

\* NewTable and NewArrayOfTables: nodeType tells which
NewTable(heap, rawKey, nodeType) ==
    LET node(k) == IF k.err THEN NoNode(heap)
                   ELSE New(heap, [EmptyNode EXCEPT !.type = nodeType,
                                                    !.rawHeader = rawKey,
                                                    !.headerParts = k.parts,
                                                    !.newline = <<"\n">>])
    IN  node(parseRawKey(rawKey))

generateArrayText(heap, elements) ==
    LET Join[i \in 0..Len(elements)] ==
            IF i = 0 THEN <<>>
            ELSE Join[i - 1] \o (IF i > 1 THEN <<",", " ">> ELSE <<>>) \o Text(heap, elements[i])
    IN  <<"[">> \o Join[Len(elements)] \o <<"]">>

generateInlineTableText(heap, entries) ==
    LET Join[i \in 0..Len(entries)] ==
            IF i = 0 THEN <<>>
            ELSE Join[i - 1] \o (IF i > 1 THEN <<",", " ">> ELSE <<>>) \o Text(heap, entries[i])
    IN  <<"{">> \o Join[Len(entries)] \o <<"}">>

NewArray(heap, elements) ==
    IF \E i \in 1..Len(elements) : validateValueType(heap, elements[i]) THEN NoNode(heap)
    ELSE New(heap, [EmptyNode EXCEPT !.type = "NodeArray",
                                     !.elements = elements,
                                     !.text = generateArrayText(heap, elements)])

NewInlineTable(heap, entries) ==
    LET made(n) == [n EXCEPT !.heap = [j \in 1..Len(n.heap) |->
                                          IF \E i \in 1..Len(entries) : entries[i] = j
                                          THEN [n.heap[j] EXCEPT !.parent = n.id]
                                          ELSE n.heap[j]]]
    IN  IF \E i \in 1..Len(entries) : entries[i] = NIL THEN NoNode(heap)
        ELSE IF checkInlineTableKeys(heap, entries, {}) THEN NoNode(heap)
        ELSE made(New(heap, [EmptyNode EXCEPT !.type = "NodeInlineTable",
                                              !.entries = entries,
                                              !.text = generateInlineTableText(heap, entries)]))

\* NewComment: an error on a newline or a control character other than tab
NewComment(heap, text) ==
    IF \E i \in 1..Len(text) : text[i] \in {"\n", "\r", "\f", BS, ESC, DEL, NUL} THEN NoNode(heap)
    ELSE New(heap, newLeaf("NodeComment", text))

NewWhitespace(heap, text) ==
    IF \E i \in 1..Len(text) : text[i] \notin {" ", "\t", "\n", "\r"} THEN NoNode(heap)
    ELSE New(heap, newLeaf("NodeWhitespace", text))

\* ------------------------------------------------------------ mutation API
\* Slice positions are the 0-based indices of the Go code.

removeAt(seq, i) == SubSeq(seq, 1, i) \o SubSeq(seq, i + 2, Len(seq))

insertAt(seq, i, x) == SubSeq(seq, 1, i) \o <<x>> \o SubSeq(seq, i + 1, Len(seq))

\* The outcome of a call: the heap and the top-level nodes after it, ok (a nil
\* error, or true), the node a deletion removed, which validation an
\* insertion into a table ran, and the key-value a query found.
Outcome(heap, nodes, ok) ==
    [heap |-> heap, nodes |-> nodes, ok |-> ok, removed |-> NIL, branch |-> "none",
     found |-> NIL]

\* findDocument: TRUE when a Document is found up the parent chain
RECURSIVE findDocument(_, _)
findDocument(heap, n) ==
    IF n = NIL THEN FALSE
    ELSE IF n = DOC THEN TRUE
    ELSE findDocument(heap, heap[n].parent)

\* localDuplicateCheck: TRUE when it reports an error
RECURSIVE localDuplicateCheck(_, _, _)
localDuplicateCheck(heap, entries, seen) ==
    IF entries = <<>> THEN FALSE
    ELSE IF heap[Head(entries)].type # "NodeKeyValue"
         THEN localDuplicateCheck(heap, Tail(entries), seen)
    ELSE LET parts == heap[Head(entries)].keyParts
             path  == keyPartsToPath(parts)
         IN  IF path \in seen THEN TRUE
             ELSE IF \E prefix \in ParentPaths(parts) : prefix \in (seen \cup {path}) THEN TRUE
             ELSE localDuplicateCheck(heap, Tail(entries), seen \cup {path})

\* Document.Validate: the full semantic validator on the current nodes
Validate(heap, nodes) == validateDocument(heap, nodes)

\* regenerateAncestorText, from parent p upwards
RECURSIVE regenerateAncestorText(_, _)
regenerateAncestorText(heap, p) ==
    IF p = NIL \/ p = DOC THEN heap
    ELSE LET h == IF heap[p].type = "NodeInlineTable"
                  THEN [heap EXCEPT ![p].text = generateInlineTableText(heap, heap[p].entries)]
                  ELSE IF heap[p].type = "NodeArray"
                  THEN [heap EXCEPT ![p].text = generateArrayText(heap, heap[p].elements)]
                  ELSE heap
         IN  regenerateAncestorText(h, h[p].parent)

SetValue(heap, nodes, kv, val) ==
    IF validateValueType(heap, val) THEN Outcome(heap, nodes, FALSE)
    ELSE LET h1 == [heap EXCEPT ![kv].val = val, ![kv].rawVal = Text(heap, val)]
             h2 == setValueParent(h1, val, kv)
         IN  Outcome(regenerateAncestorText(h2, h2[kv].parent), nodes, TRUE)

\* the index of the first KeyValue of nodes whose key matches segs, or -1
findTopLevelKV(heap, nodes, segs) ==
    LET hits == {i \in 1..Len(nodes) : /\ heap[nodes[i]].type = "NodeKeyValue"
                                       /\ matchKeyParts(heap[nodes[i]].keyParts, segs)}
    IN  IF hits = {} THEN -1 ELSE (CHOOSE i \in hits : \A j \in hits : i <= j) - 1

deleteFromEntries(heap, nodes, t, segs) ==
    LET remove(idx) ==
            IF idx < 0 THEN Outcome(heap, nodes, FALSE)
            ELSE [Outcome([heap EXCEPT ![t].entries = removeAt(@, idx)], nodes, TRUE)
                    EXCEPT !.removed = heap[t].entries[idx + 1]]
    IN  remove(findTopLevelKV(heap, heap[t].entries, segs))

deleteFromTableNode(heap, nodes, n, tableSegs, keySegs) ==
    IF /\ heap[n].type \in {"NodeTable", "NodeArrayOfTables"}
       /\ matchKeyParts(heap[n].headerParts, tableSegs)
    THEN deleteFromEntries(heap, nodes, n, keySegs)
    ELSE Outcome(heap, nodes, FALSE)

\* deleteFromTables, from prefix length prefixLen and node number k (1-based) on
RECURSIVE deleteFromTables(_, _, _, _, _)
deleteFromTables(heap, nodes, segs, prefixLen, k) ==
    IF prefixLen < 1 THEN Outcome(heap, nodes, FALSE)
    ELSE IF k > Len(nodes) THEN deleteFromTables(heap, nodes, segs, prefixLen - 1, 1)
    ELSE LET tried(r) == IF r.ok THEN r
                         ELSE deleteFromTables(heap, nodes, segs, prefixLen, k + 1)
         IN  tried(deleteFromTableNode(heap, nodes, nodes[k], SubSeq(segs, 1, prefixLen),
                                       SubSeq(segs, prefixLen + 1, Len(segs))))

\* DocumentDelete without the search inside the tables
DocumentDelete_topLevelOnly(heap, nodes, path) ==
    LET found(idx) ==
            IF idx >= 0
            THEN [Outcome(heap, removeAt(nodes, idx), TRUE) EXCEPT !.removed = nodes[idx + 1]]
            ELSE Outcome(heap, nodes, FALSE)
    IN  found(findTopLevelKV(heap, nodes, parseDottedPath(path, 1)))

DocumentDelete(heap, nodes, path) ==
    LET found(segs, idx) ==
            IF idx >= 0
            THEN [Outcome(heap, removeAt(nodes, idx), TRUE) EXCEPT !.removed = nodes[idx + 1]]
            ELSE deleteFromTables(heap, nodes, segs, Len(segs) - 1, 1)
        search(segs) == found(segs, findTopLevelKV(heap, nodes, segs))
    IN  search(parseDottedPath(path, 1))

\* ---------------------------------------------------------------- accessors
\* A slice in the hands of the caller: its items, and whether it shares its
\* backing array with the list field of node owner (DOC for Document.nodes).
\* append([]T(nil), list...) allocates a new backing array.
Slice(shared, owner, field, items) ==
    [shared |-> shared, owner |-> owner, field |-> field, items |-> items]

NoSlice == Slice(FALSE, NIL, "none", <<>>)

KeyParts(heap, kv) == Slice(FALSE, kv, "keyParts", heap[kv].keyParts)

HeaderParts(heap, t) == Slice(FALSE, t, "headerParts", heap[t].headerParts)

\* Entries that hands out the internal list itself
Entries_internal(heap, t) == Slice(TRUE, t, "entries", heap[t].entries)

Entries(heap, t) == Slice(FALSE, t, "entries", heap[t].entries)

Elements(heap, a) == Slice(FALSE, a, "elements", heap[a].elements)

Nodes(nodes) == Slice(FALSE, DOC, "nodes", nodes)

\* The caller assigns x to element i (0-based) of the slice sl: the heap and
\* the top-level nodes afterwards.  The assignment reaches a list of the
\* document only through a shared backing array.
assignElement(heap, nodes, sl, i, x) ==
    IF ~sl.shared THEN [heap |-> heap, nodes |-> nodes]
    ELSE IF sl.owner = DOC THEN [heap |-> heap, nodes |-> [nodes EXCEPT ![i + 1] = x]]
    ELSE [heap |-> [heap EXCEPT ![sl.owner][sl.field][i + 1] = x], nodes |-> nodes]

\* --------------------------------------------------------------------- walk
\* Children of node n; of the document when n is DOC
Children(heap, nodes, n) ==
    IF n = DOC THEN nodes
    ELSE IF heap[n].type = "NodeKeyValue"
         THEN heap[n].leading \o (IF heap[n].val # NIL THEN <<heap[n].val>> ELSE <<>>)
                  \o heap[n].trailing
    ELSE IF heap[n].type \in {"NodeTable", "NodeArrayOfTables"}
         THEN heap[n].leading \o heap[n].entries \o heap[n].trailing
    ELSE IF heap[n].type = "NodeArray" THEN heap[n].elements
    ELSE IF heap[n].type = "NodeInlineTable" THEN heap[n].entries
    ELSE <<>>

\* The walk state: the nodes handed to the visitor so far, and go, the value
\* the last walk returned.  The visitor returns false on its stopAt-th call
\* (never when stopAt is 0).
RECURSIVE walk(_, _, _, _, _)
RECURSIVE walkChildren(_, _, _, _, _)

\* the loop over the children that goes on after a child's walk returned false
RECURSIVE walkChildren_ignoresStop(_, _, _, _, _)
walkChildren_ignoresStop(heap, nodes, cs, stopAt, st) ==
    IF cs = <<>> THEN st
    ELSE walkChildren_ignoresStop(heap, nodes, Tail(cs), stopAt,
                                  walk(heap, nodes, Head(cs), stopAt, st))

walkChildren(heap, nodes, cs, stopAt, st) ==
    IF cs = <<>> THEN [st EXCEPT !.go = TRUE]
    ELSE LET walked(r) == IF ~r.go THEN r
                          ELSE walkChildren(heap, nodes, Tail(cs), stopAt, r)
         IN  walked(walk(heap, nodes, Head(cs), stopAt, st))

walk(heap, nodes, n, stopAt, st) ==
    LET visit(v) == IF Len(v) = stopAt THEN [visited |-> v, go |-> FALSE]
                    ELSE walkChildren(heap, nodes, Children(heap, nodes, n), stopAt,
                                      [visited |-> v, go |-> TRUE])
    IN  visit(Append(st.visited, n))

\* Document.Walk: the nodes the visitor was called with, in order
Walk(heap, nodes, stopAt) == walk(heap, nodes, DOC, stopAt, [visited |-> <<>>, go |-> TRUE]).visited

\* ------------------------------------------------------------------ queries
\* findInKVEntries, second loop, from entry number k (1-based) on
RECURSIVE findInKVEntries(_, _, _)
RECURSIVE findInKVPrefix(_, _, _, _)
findInKVPrefix(heap, entries, segs, k) ==
    IF k > Len(entries) THEN NIL
    ELSE LET kv == heap[entries[k]]
             n  == Len(kv.keyParts)
             tried(found) == IF found # NIL THEN found
                             ELSE findInKVPrefix(heap, entries, segs, k + 1)
         IN  IF /\ n < Len(segs)
                /\ matchKeyParts(kv.keyParts, SubSeq(segs, 1, n))
                /\ kv.val # NIL
                /\ heap[kv.val].type = "NodeInlineTable"
             THEN tried(findInKVEntries(heap, heap[kv.val].entries, SubSeq(segs, n + 1, Len(segs))))
             ELSE findInKVPrefix(heap, entries, segs, k + 1)

findInKVEntries(heap, entries, segs) ==
    LET exact == {i \in 1..Len(entries) : matchKeyParts(heap[entries[i]].keyParts, segs)} IN
    IF exact # {} THEN entries[CHOOSE i \in exact : \A j \in exact : i <= j]
    ELSE findInKVPrefix(heap, entries, segs, 1)

\* findInEntries, second loop, from entry number k (1-based) on
RECURSIVE findInPrefix(_, _, _, _)
findInPrefix(heap, entries, segs, k) ==
    IF k > Len(entries) THEN NIL
    ELSE LET kv == heap[entries[k]]
             n  == Len(kv.keyParts)
             tried(found) == IF found # NIL THEN found
                             ELSE findInPrefix(heap, entries, segs, k + 1)
         IN  IF /\ kv.type = "NodeKeyValue"
                /\ n < Len(segs)
                /\ matchKeyParts(kv.keyParts, SubSeq(segs, 1, n))
                /\ kv.val # NIL
                /\ heap[kv.val].type = "NodeInlineTable"
             THEN tried(findInKVEntries(heap, heap[kv.val].entries, SubSeq(segs, n + 1, Len(segs))))
             ELSE findInPrefix(heap, entries, segs, k + 1)

\* findInEntries without the descent into inline tables
findInEntries_exactOnly(heap, entries, segs) ==
    LET first(idx) == IF idx >= 0 THEN entries[idx + 1] ELSE NIL
    IN  first(findTopLevelKV(heap, entries, segs))

findInEntries(heap, entries, segs) ==
    LET first(idx) == IF idx >= 0 THEN entries[idx + 1]
                      ELSE findInPrefix(heap, entries, segs, 1)
    IN  first(findTopLevelKV(heap, entries, segs))

getFromTableNode(heap, n, tableSegs, keySegs) ==
    IF /\ heap[n].type \in {"NodeTable", "NodeArrayOfTables"}
       /\ matchKeyParts(heap[n].headerParts, tableSegs)
    THEN findInEntries(heap, heap[n].entries, keySegs)
    ELSE NIL

\* getFromTables, from prefix length prefixLen and node number k (1-based) on
RECURSIVE getFromTables(_, _, _, _, _)
getFromTables(heap, nodes, segs, prefixLen, k) ==
    IF prefixLen < 1 THEN NIL
    ELSE IF k > Len(nodes) THEN getFromTables(heap, nodes, segs, prefixLen - 1, 1)
    ELSE LET tried(kv) == IF kv # NIL THEN kv
                          ELSE getFromTables(heap, nodes, segs, prefixLen, k + 1)
         IN  tried(getFromTableNode(heap, nodes[k], SubSeq(segs, 1, prefixLen),
                                    SubSeq(segs, prefixLen + 1, Len(segs))))

\* Document.Get: the key-value found, or NIL; the document is left as it is
DocumentGet(heap, nodes, path) ==
    LET result(segs, kv) == IF kv # NIL THEN kv
                            ELSE getFromTables(heap, nodes, segs, Len(segs) - 1, 1)
        search(segs) == result(segs, findInEntries(heap, nodes, segs))
    IN  [Outcome(heap, nodes, TRUE) EXCEPT !.found = search(parseDottedPath(path, 1))]

DocumentDeleteTable(heap, nodes, path) ==
    LET remove(hits) ==
            IF hits = {} THEN Outcome(heap, nodes, FALSE)
            ELSE LET i == CHOOSE i \in hits : \A j \in hits : i <= j IN
                 [Outcome(heap, removeAt(nodes, i - 1), TRUE) EXCEPT !.removed = nodes[i]]
        search(segs) ==
            remove({i \in 1..Len(nodes) : /\ heap[nodes[i]].type = "NodeTable"
                                          /\ matchKeyParts(heap[nodes[i]].headerParts, segs)})
    IN  search(parseDottedPath(path, 1))

DocumentAppend(heap, nodes, node) ==
    IF validateDocumentNode(heap, node) THEN Outcome(heap, nodes, FALSE)
    ELSE LET n1 == Append(nodes, node)
             h1 == setNodeParent(heap, node, DOC)
         IN  IF isTriviaNode(heap, node) THEN Outcome(h1, n1, TRUE)
             ELSE IF Validate(h1, n1)
                  THEN Outcome(setNodeParent(h1, node, NIL), SubSeq(n1, 1, Len(n1) - 1), FALSE)
             ELSE Outcome(h1, n1, TRUE)

\* DocumentInsertAt with the rollback of Append, which drops the last node
DocumentInsertAt_dropsLast(heap, nodes, index, node) ==
    IF validateDocumentNode(heap, node) THEN Outcome(heap, nodes, FALSE)
    ELSE LET i  == IF index < 0 THEN 0 ELSE index
             n1 == insertAt(nodes, i, node)
             h1 == setNodeParent(heap, node, DOC)
         IN  IF i >= Len(nodes) THEN DocumentAppend(heap, nodes, node)
             ELSE IF isTriviaNode(heap, node) THEN Outcome(h1, n1, TRUE)
             ELSE IF Validate(h1, n1)
                  THEN Outcome(setNodeParent(h1, node, NIL), SubSeq(n1, 1, Len(n1) - 1), FALSE)
             ELSE Outcome(h1, n1, TRUE)

DocumentInsertAt(heap, nodes, index, node) ==
    IF validateDocumentNode(heap, node) THEN Outcome(heap, nodes, FALSE)
    ELSE LET i  == IF index < 0 THEN 0 ELSE index
             n1 == insertAt(nodes, i, node)
             h1 == setNodeParent(heap, node, DOC)
         IN  IF i >= Len(nodes) THEN DocumentAppend(heap, nodes, node)
             ELSE IF isTriviaNode(heap, node) THEN Outcome(h1, n1, TRUE)
             ELSE IF Validate(h1, n1)
                  THEN Outcome(setNodeParent(h1, node, NIL), removeAt(n1, i), FALSE)
             ELSE Outcome(h1, n1, TRUE)

\* The body that TableNode.Append, TableNode.InsertAt and ArrayOfTables.Append
\* share once the entry is placed: entries1 is t.entries with kv put in at i.
validateInsertion(heap, nodes, t, i, kv, entries1) ==
    LET h1   == [[heap EXCEPT ![t].entries = entries1] EXCEPT ![kv].parent = t]
        back == [[h1 EXCEPT ![t].entries = removeAt(@, i)] EXCEPT ![kv].parent = NIL]
        result(err, branch) ==
            [Outcome(IF err THEN back ELSE h1, nodes, ~err) EXCEPT !.branch = branch]
    IN  IF findDocument(h1, t)
        THEN result(Validate(h1, nodes), "full")
        ELSE result(localDuplicateCheck(h1, h1[t].entries, {}), "local")

TableNodeAppend(heap, nodes, t, kv) ==
    IF kv = NIL THEN Outcome(heap, nodes, FALSE)
    ELSE validateInsertion(heap, nodes, t, Len(heap[t].entries), kv, Append(heap[t].entries, kv))

\* TableNodeInsertAt that appends on a negative index as on one past the end
TableNodeInsertAt_appendsNegative(heap, nodes, t, index, kv) ==
    IF kv = NIL THEN Outcome(heap, nodes, FALSE)
    ELSE IF index < 0 \/ index >= Len(heap[t].entries) THEN TableNodeAppend(heap, nodes, t, kv)
    ELSE validateInsertion(heap, nodes, t, index, kv, insertAt(heap[t].entries, index, kv))

TableNodeInsertAt(heap, nodes, t, index, kv) ==
    LET i == IF index < 0 THEN 0 ELSE index IN
    IF kv = NIL THEN Outcome(heap, nodes, FALSE)
    ELSE IF i >= Len(heap[t].entries) THEN TableNodeAppend(heap, nodes, t, kv)
    ELSE validateInsertion(heap, nodes, t, i, kv, insertAt(heap[t].entries, i, kv))

TableNodeDelete(heap, nodes, t, key) == deleteFromEntries(heap, nodes, t, parseDottedPath(key, 1))

ArrayOfTablesAppend(heap, nodes, a, kv) ==
    IF kv = NIL THEN Outcome(heap, nodes, FALSE)
    ELSE validateInsertion(heap, nodes, a, Len(heap[a].entries), kv, Append(heap[a].entries, kv))

ArrayOfTablesDelete(heap, nodes, a, key) ==
    deleteFromEntries(heap, nodes, a, parseDottedPath(key, 1))

ArrayNodeAppend(heap, nodes, a, elem) ==
    IF validateValueType(heap, elem) THEN Outcome(heap, nodes, FALSE)
    ELSE LET elements == Append(heap[a].elements, elem) IN
         Outcome([heap EXCEPT ![a].elements = elements,
                              ![a].text = generateArrayText(heap, elements)], nodes, TRUE)

ArrayNodeDelete(heap, nodes, a, i) ==
    IF i < 0 \/ i >= Len(heap[a].elements) THEN Outcome(heap, nodes, FALSE)
    ELSE LET elements == removeAt(heap[a].elements, i) IN
         [Outcome([heap EXCEPT ![a].elements = elements,
                               ![a].text = generateArrayText(heap, elements)], nodes, TRUE)
            EXCEPT !.removed = heap[a].elements[i + 1]]

InlineTableNodeAppend(heap, nodes, n, kv) ==
    IF kv = NIL THEN Outcome(heap, nodes, FALSE)
    ELSE LET path     == keyPartsToPath(heap[kv].keyParts)
             existing == {keyPartsToPath(heap[heap[n].entries[i]].keyParts) :
                              i \in 1..Len(heap[n].entries)}
             entries  == Append(heap[n].entries, kv)
             h1       == [[heap EXCEPT ![n].entries = entries] EXCEPT ![kv].parent = n]
         IN  IF path \in existing THEN Outcome(heap, nodes, FALSE)
             ELSE IF \E prefix \in ParentPaths(heap[kv].keyParts) : prefix \in existing
                  THEN Outcome(heap, nodes, FALSE)
             ELSE Outcome([h1 EXCEPT ![n].text = generateInlineTableText(h1, entries)],
                          nodes, TRUE)

InlineTableNodeDelete(heap, nodes, n, key) ==
    LET remove(idx, entries) ==
            IF idx < 0 THEN Outcome(heap, nodes, FALSE)
            ELSE [Outcome([heap EXCEPT ![n].entries = entries,
                                       ![n].text = generateInlineTableText(heap, entries)],
                          nodes, TRUE)
                    EXCEPT !.removed = heap[n].entries[idx + 1]]
        found(idx) == remove(idx, removeAt(heap[n].entries, idx))
    IN  found(findTopLevelKV(heap, heap[n].entries, parseDottedPath(key, 1)))

\* ---------------------------------------------------------- the state machine
\* A program that parses an input and then calls the mutation API on the
\* document.  input: the bytes handed to Parse.  status: "unparsed", then
\* "parsed" or "rejected".  heap: every node the program holds, by id.
\* nodes: the document's top-level nodes.  last: the last call, its arguments,
\* its result and the state it started from.  calls: mutation calls made.

VARIABLES input, status, heap, nodes, last, calls, slice, validator, lexer

vars == <<input, status, heap, nodes, last, calls, slice, validator, lexer>>

MaxLines == 2
MaxCalls == 2
MaxIndex == 2

\* the visitor of a walk returns false at the latest on its MaxVisits-th call
MaxVisits == 3

\* the lines an input is made of
Lines ==
    { <<"a", " ", "=", " ", "1", "\n">>,
      <<"[", "t", "]", "\n">>,
      <<"[", "t", ".", "a", "]", "\n">>,
      <<"t", " ", "=", " ", "{", "x", " ", "=", " ", "1", "}", "\n">>,
      <<"v", " ", "=", " ", "[", "{", "x", " ", "=", " ", "1", "}", "]", "\n">>,
      <<"[", "[", "p", "]", "]", "\n">>,
      <<"#", " ", "c">> }

RECURSIVE Concat(_)
Concat(ss) == IF ss = <<>> THEN <<>> ELSE Head(ss) \o Concat(Tail(ss))

Inputs == {Concat(ls) : ls \in UNION {[1..n -> Lines] : n \in 0..MaxLines}}

\* keys, header paths and lookup paths handed to the API
KeyArgs == {<<"a">>, <<"x">>, <<"t", ".", "a">>}

HeaderArgs == {<<"t">>, <<"t", ".", "a">>}

PathArgs == {<<"a">>, <<"x">>, <<"t">>, <<"t", ".", "a">>, <<"p", ".", "a">>}

NewValue == 999

\* A node argument: a node the program already holds (or nil), or a
\* constructor call whose result is passed on.
Arg(con, key, v) == [con |-> con, key |-> key, v |-> v]

Held(h) == {Arg("node", <<>>, n) : n \in 0..Len(h)}

HeldOfType(h, types) == {Arg("node", <<>>, n) : n \in {0} \cup {m \in 1..Len(h) : h[m].type \in types}}

FreshValues == {Arg("NewInteger", <<>>, NewValue), Arg("NewArray", <<>>, NewValue),
                Arg("NewInlineTable", <<"x">>, NewValue)}

FreshKeyValues == {Arg("NewKeyValue", k, NewValue) : k \in KeyArgs}

FreshHeaders == {Arg("NewTable", k, 0) : k \in HeaderArgs} \cup {Arg("NewArrayOfTables", <<"p">>, 0)}

FreshTrivia == {Arg("NewComment", <<"#", " ", "c">>, 0), Arg("NewWhitespace", <<"\n">>, 0)}

\* Build evaluates an argument: the heap with the constructed nodes, and the id
RECURSIVE Build(_, _)
Build(h, arg) ==
    CASE arg.con = "node"           -> [heap |-> h, id |-> arg.v, err |-> FALSE]
      [] arg.con = "NewInteger"     -> NewInteger(h, arg.v)
      [] arg.con = "NewArray"       -> NewArray(NewInteger(h, arg.v).heap,
                                                <<NewInteger(h, arg.v).id>>)
      [] arg.con = "NewKeyValue"    -> NewKeyValue(NewInteger(h, arg.v).heap, arg.key,
                                                   NewInteger(h, arg.v).id)
      [] arg.con = "NewInlineTable" -> NewInlineTable(
                                           Build(h, Arg("NewKeyValue", arg.key, arg.v)).heap,
                                           <<Build(h, Arg("NewKeyValue", arg.key, arg.v)).id>>)
      [] arg.con \in {"NewTable", "NewArrayOfTables"} ->
             NewTable(h, arg.key, IF arg.con = "NewTable" THEN "NodeTable"
                                  ELSE "NodeArrayOfTables")
      [] arg.con = "NewComment"     -> NewComment(h, arg.key)
      [] arg.con = "NewWhitespace"  -> NewWhitespace(h, arg.key)

\* the nodes below n, n included
RECURSIVE Subtree(_, _)
Subtree(h, n) ==
    IF n = NIL THEN {}
    ELSE {n} \cup Subtree(h, h[n].val)
             \cup UNION {Subtree(h, h[n].entries[i]) : i \in 1..Len(h[n].entries)}
             \cup UNION {Subtree(h, h[n].elements[i]) : i \in 1..Len(h[n].elements)}

\* the parent chain from p ends within fuel steps
RECURSIVE ParentChainEnds(_, _, _)
ParentChainEnds(h, p, fuel) ==
    IF p = NIL \/ p = DOC THEN TRUE
    ELSE IF fuel = 0 THEN FALSE
    ELSE ParentChainEnds(h, h[p].parent, fuel - 1)

NodesOfType(types) == {n \in 1..Len(heap) : heap[n].type \in types}

NoCall ==
    [op |-> "none", target |-> NIL, node |-> NIL, index |-> 0, path |-> <<>>, ok |-> TRUE,
     removed |-> NIL, branch |-> "none", found |-> NIL, visited |-> <<>>,
     heap0 |-> <<>>, nodes0 |-> <<>>]

\* A docValidator at work: its tableState, and the checks validate has still
\* to make.
NoValidator == [state |-> newTableState, todo |-> <<>>]

\* lexer: the parser's lexer and current token (pos, valueMode, cur), the step
\* last made on them (op, err) and what they were before it (prev)
NoToken == [type |-> "", text |-> <<>>, pos |-> 0, end |-> 0]

NoLexer == [pos |-> 0, valueMode |-> FALSE, cur |-> NoToken, op |-> "", err |-> FALSE,
            prev |-> [pos |-> 0, valueMode |-> FALSE, cur |-> NoToken]]

Init ==
    /\ input \in Inputs
    /\ status = "unparsed"
    /\ heap = <<>>
    /\ nodes = <<>>
    /\ last = NoCall
    /\ calls = 0
    /\ slice = NoSlice
    /\ validator = NoValidator
    /\ lexer = NoLexer

ParseInput ==
    /\ status = "unparsed"
    /\ \E r \in {Parse(input)} :
       /\ status' = IF r.err THEN "rejected" ELSE "parsed"
       /\ heap' = IF r.err THEN <<>> ELSE r.heap
       /\ nodes' = IF r.err THEN <<>> ELSE r.nodes
       /\ last' = [NoCall EXCEPT !.op = "Parse", !.ok = ~r.err]
    /\ UNCHANGED <<input, calls, slice, validator, lexer>>

CanCall == status = "parsed" /\ calls < MaxCalls /\ slice = NoSlice

\* the effect of a call with outcome r, made on heap h0
Called(op, target, node, index, path, h0, r) ==
    /\ heap' = r.heap
    /\ nodes' = r.nodes
    /\ last' = [op |-> op, target |-> target, node |-> node, index |-> index, path |-> path,
                ok |-> r.ok, removed |-> r.removed, branch |-> r.branch, found |-> r.found,
                visited |-> <<>>,
                heap0 |-> h0, nodes0 |-> nodes]
    /\ calls' = calls + 1
    /\ UNCHANGED <<input, status, slice, validator, lexer>>

KeyValues == HeldOfType(heap, {"NodeKeyValue"}) \cup FreshKeyValues

Indices == -1..MaxIndex

CallDocumentAppend ==
    /\ CanCall
    /\ \E arg \in Held(heap) \cup FreshKeyValues \cup FreshHeaders \cup FreshTrivia :
         \E b \in {Build(heap, arg)} :
           Called("Document.Append", DOC, b.id, 0, <<>>, b.heap,
                  DocumentAppend(b.heap, nodes, b.id))

CallDocumentInsertAt ==
    /\ CanCall
    /\ \E i \in Indices :
       \E arg \in Held(heap) \cup FreshKeyValues \cup FreshHeaders \cup FreshTrivia :
         \E b \in {Build(heap, arg)} :
           Called("Document.InsertAt", DOC, b.id, i, <<>>, b.heap,
                  DocumentInsertAt(b.heap, nodes, i, b.id))

CallDocumentDelete ==
    /\ CanCall
    /\ \E path \in PathArgs :
         Called("Document.Delete", DOC, NIL, 0, path, heap, DocumentDelete(heap, nodes, path))

\* lookup paths: those of the deletions, and paths into inline tables and
\* into tables with a two-part header
GetArgs ==
    PathArgs \cup {<<"t", ".", "x">>, <<"t", ".", "a", ".", "x">>, <<"t", ".", "a", ".", "a">>,
                   <<"t", ".", "t", ".", "a">>}

CallDocumentGet ==
    /\ CanCall
    /\ \E path \in GetArgs :
         Called("Document.Get", DOC, NIL, 0, path, heap, DocumentGet(heap, nodes, path))

CallDocumentDeleteTable ==
    /\ CanCall
    /\ \E path \in PathArgs :
         Called("Document.DeleteTable", DOC, NIL, 0, path, heap,
                DocumentDeleteTable(heap, nodes, path))

\* A call that would tie a node below itself, or walk a parent chain that
\* never ends, does not return; such calls are left out.
CallSetValue ==
    /\ CanCall
    /\ \E kv \in NodesOfType({"NodeKeyValue"}) : \E arg \in Held(heap) \cup FreshValues :
         \E b \in {Build(heap, arg)} :
           /\ kv \notin Subtree(b.heap, b.id)
           /\ ParentChainEnds(setValueParent(b.heap, b.id, kv), kv, Len(b.heap))
           /\ Called("KeyValue.SetValue", kv, b.id, 0, <<>>, b.heap,
                     SetValue(b.heap, nodes, kv, b.id))

CallTableNodeAppend ==
    /\ CanCall
    /\ \E t \in NodesOfType({"NodeTable"}) : \E arg \in KeyValues :
         \E b \in {Build(heap, arg)} :
           Called("TableNode.Append", t, b.id, 0, <<>>, b.heap,
                  TableNodeAppend(b.heap, nodes, t, b.id))

CallTableNodeInsertAt ==
    /\ CanCall
    /\ \E t \in NodesOfType({"NodeTable"}) : \E i \in Indices : \E arg \in KeyValues :
         \E b \in {Build(heap, arg)} :
           Called("TableNode.InsertAt", t, b.id, i, <<>>, b.heap,
                  TableNodeInsertAt(b.heap, nodes, t, i, b.id))

CallTableNodeDelete ==
    /\ CanCall
    /\ \E t \in NodesOfType({"NodeTable"}) : \E key \in PathArgs :
         Called("TableNode.Delete", t, NIL, 0, key, heap, TableNodeDelete(heap, nodes, t, key))

CallArrayOfTablesAppend ==
    /\ CanCall
    /\ \E a \in NodesOfType({"NodeArrayOfTables"}) : \E arg \in KeyValues :
         \E b \in {Build(heap, arg)} :
           Called("ArrayOfTables.Append", a, b.id, 0, <<>>, b.heap,
                  ArrayOfTablesAppend(b.heap, nodes, a, b.id))

CallArrayOfTablesDelete ==
    /\ CanCall
    /\ \E a \in NodesOfType({"NodeArrayOfTables"}) : \E key \in PathArgs :
         Called("ArrayOfTables.Delete", a, NIL, 0, key, heap,
                ArrayOfTablesDelete(heap, nodes, a, key))

CallArrayNodeAppend ==
    /\ CanCall
    /\ \E a \in NodesOfType({"NodeArray"}) : \E arg \in Held(heap) \cup FreshValues :
         \E b \in {Build(heap, arg)} :
           /\ a \notin Subtree(b.heap, b.id)
           /\ Called("ArrayNode.Append", a, b.id, 0, <<>>, b.heap,
                     ArrayNodeAppend(b.heap, nodes, a, b.id))

CallArrayNodeDelete ==
    /\ CanCall
    /\ \E a \in NodesOfType({"NodeArray"}) : \E i \in Indices :
         Called("ArrayNode.Delete", a, NIL, i, <<>>, heap, ArrayNodeDelete(heap, nodes, a, i))

CallInlineTableNodeAppend ==
    /\ CanCall
    /\ \E n \in NodesOfType({"NodeInlineTable"}) : \E arg \in KeyValues :
         \E b \in {Build(heap, arg)} :
           /\ n \notin Subtree(b.heap, b.id)
           /\ Called("InlineTableNode.Append", n, b.id, 0, <<>>, b.heap,
                     InlineTableNodeAppend(b.heap, nodes, n, b.id))

CallInlineTableNodeDelete ==
    /\ CanCall
    /\ \E n \in NodesOfType({"NodeInlineTable"}) : \E key \in PathArgs :
         Called("InlineTableNode.Delete", n, NIL, 0, key, heap,
                InlineTableNodeDelete(heap, nodes, n, key))

\* Document.Walk with a visitor that returns false on its stopAt-th call, and
\* with one that never does (stopAt 0)
CallDocumentWalk ==
    /\ CanCall
    /\ \E stopAt \in 0..MaxVisits :
         last' = [NoCall EXCEPT !.op = "Document.Walk", !.target = DOC, !.index = stopAt,
                                !.visited = Walk(heap, nodes, stopAt),
                                !.heap0 = heap, !.nodes0 = nodes]
    /\ calls' = calls + 1
    /\ UNCHANGED <<input, status, heap, nodes, slice, validator, lexer>>

\* the slices the accessors of the document's nodes return
AccessorResults ==
    {KeyParts(heap, kv) : kv \in NodesOfType({"NodeKeyValue"})}
    \cup {HeaderParts(heap, t) : t \in NodesOfType({"NodeTable", "NodeArrayOfTables"})}
    \cup {Entries(heap, t) : t \in NodesOfType({"NodeTable", "NodeArrayOfTables", "NodeInlineTable"})}
    \cup {Elements(heap, a) : a \in NodesOfType({"NodeArray"})}
    \cup {Nodes(nodes)}

\* the caller takes the slice an accessor returns
CallAccessor ==
    /\ CanCall
    /\ \E sl \in AccessorResults :
         /\ slice' = sl
         /\ last' = [NoCall EXCEPT !.op = "accessor", !.target = sl.owner,
                                   !.heap0 = heap, !.nodes0 = nodes]
    /\ calls' = calls + 1
    /\ UNCHANGED <<input, status, heap, nodes, validator, lexer>>

\* what the caller writes into a slice of key parts, and into a slice of nodes
WrittenPart == KeyPart(<<"z">>, <<"z">>, FALSE)

\* The caller overwrites an element of the slice it holds, or appends to it
\* (index Len), and lets go of it.  An append writes behind the length of the
\* slice, which no list of the document sees.
WriteSlice ==
    /\ slice # NoSlice
    /\ \E i \in 0..Len(slice.items) :
       \E w \in {IF i = Len(slice.items) THEN [heap |-> heap, nodes |-> nodes]
                 ELSE assignElement(heap, nodes, slice, i,
                                    IF slice.field \in {"keyParts", "headerParts"}
                                    THEN WrittenPart ELSE NIL)} :
         /\ heap' = w.heap
         /\ nodes' = w.nodes
         /\ last' = [NoCall EXCEPT !.op = "write", !.target = slice.owner, !.index = i,
                                   !.heap0 = heap, !.nodes0 = nodes]
    /\ slice' = NoSlice
    /\ UNCHANGED <<input, status, calls, validator, lexer>>

NextState ==
    \/ ParseInput
    \/ CallDocumentAppend
    \/ CallDocumentInsertAt
    \/ CallDocumentDelete
    \/ CallDocumentDeleteTable
    \/ CallDocumentGet
    \/ CallDocumentWalk
    \/ CallAccessor
    \/ WriteSlice
    \/ CallSetValue
    \/ CallTableNodeAppend
    \/ CallTableNodeInsertAt
    \/ CallTableNodeDelete
    \/ CallArrayOfTablesAppend
    \/ CallArrayOfTablesDelete
    \/ CallArrayNodeAppend
    \/ CallArrayNodeDelete
    \/ CallInlineTableNodeAppend
    \/ CallInlineTableNodeDelete

Spec == Init /\ [][NextState]_vars

\* ------------------------------------------------ the validator, step by step
\* A second state machine runs docValidator.validate check by check on the
\* documents the parser builds from up to MaxDecls declarations, so that the
\* tableState before and after every header and every key-value is a state.

MaxDecls == 4

DeclLines ==
    { <<"[", "a", "]", "\n">>,
      <<"[", "a", ".", "b", "]", "\n">>,
      <<"[", "[", "a", "]", "]", "\n">>,
      <<"[", "[", "a", ".", "b", "]", "]", "\n">>,
      <<"a", " ", "=", " ", "1", "\n">>,
      <<"b", " ", "=", " ", "1", "\n">>,
      <<"a", ".", "b", " ", "=", " ", "1", "\n">>,
      <<"b", ".", "c", " ", "=", " ", "1", "\n">>,
      <<"a", " ", "=", " ", "{", "b", " ", "=", " ", "1", "}", "\n">>,
      <<"a", " ", "=", " ", "[", "1", "]", "\n">>,
      <<"a", " ", "=", " ", "{", "b", " ", "=", " ", "1", ",", " ",
        "b", ".", "c", " ", "=", " ", "2", "}", "\n">>,
      <<"a", " ", "=", " ", "{", "b", ".", "c", " ", "=", " ", "1", ",", " ",
        "b", " ", "=", " ", "2", "}", "\n">> }

Documents == {Concat(ls) : ls \in UNION {[1..n -> DeclLines] : n \in 0..MaxDecls}}

\* one check of validate: the function called, its node, and the header parts
\* handed to checkKeyValue
Check(op, node, base) == [op |-> op, node |-> node, base |-> base]

\* the checks of the key-values among the entries of a table
keyValueChecks(h, base, entries) ==
    LET isKV(e) == h[e].type = "NodeKeyValue"
        kvs == SelectSeq(entries, isKV)
    IN  [i \in 1..Len(kvs) |-> Check("checkKeyValue", kvs[i], base)]

\* The checks validate makes for the nodes ns, in order: checkKeyValue for a
\* top-level key-value; for a table or an array of tables the checks of its
\* header, followed by checkKeyValue for each key-value among its entries.
Checks(h, ns) ==
    LET of(n) ==
            IF h[n].type = "NodeKeyValue" THEN <<Check("checkKeyValue", n, <<>>)>>
            ELSE IF h[n].type \in {"NodeTable", "NodeArrayOfTables"}
                 THEN <<Check(IF h[n].type = "NodeTable" THEN "checkTable" ELSE "checkAOT",
                              n, <<>>)>>
                      \o keyValueChecks(h, h[n].headerParts, h[n].entries)
            ELSE <<>>
    IN  Concat([i \in 1..Len(ns) |-> of(ns[i])])

ValidatorInit ==
    /\ input \in Documents
    /\ status = "unparsed"
    /\ heap = <<>>
    /\ nodes = <<>>
    /\ last = NoCall
    /\ calls = 0
    /\ slice = NoSlice
    /\ validator = NoValidator
    /\ lexer = NoLexer

\* Parse up to the call of validateDocument: the parser's document, and a new
\* docValidator for it
ParseSyntax ==
    /\ status = "unparsed"
    /\ \E p \in {IF input = <<>> THEN [err |-> FALSE, heap |-> <<>>, res |-> <<>>]
                ELSE parse(newParser(input), <<>>, NIL)} :
       /\ status' = IF p.err THEN "rejected" ELSE "validating"
       /\ heap' = IF p.err THEN <<>> ELSE p.heap
       /\ nodes' = IF p.err THEN <<>> ELSE p.res
       /\ validator' = [state |-> newTableState,
                        todo |-> IF p.err THEN <<>> ELSE Checks(p.heap, p.res)]
    /\ UNCHANGED <<input, last, calls, slice, lexer>>

\* the next check of validate is one by op; validate returns at the first error
NextCheck(op) ==
    /\ status = "validating"
    /\ ~validator.state.err
    /\ validator.todo # <<>>
    /\ Head(validator.todo).op = op

\* the effect of the check c that leaves the tableState ts1
Checked(c, ts1) ==
    /\ validator' = [state |-> ts1, todo |-> Tail(validator.todo)]
    /\ last' = [op |-> c.op, node |-> c.node, base |-> c.base, ts0 |-> validator.state,
                err |-> ts1.err]
    /\ UNCHANGED <<input, status, heap, nodes, calls, slice, lexer>>

\* checkTable up to its loop over the entries
CheckTableHeader ==
    /\ NextCheck("checkTable")
    /\ \E c \in {Head(validator.todo)} :
         Checked(c, checkTable([heap EXCEPT ![c.node].entries = <<>>], validator.state, c.node))

\* checkAOT up to its loop over the entries
CheckAOTHeader ==
    /\ NextCheck("checkAOT")
    /\ \E c \in {Head(validator.todo)} :
         Checked(c, checkAOT([heap EXCEPT ![c.node].entries = <<>>], validator.state, c.node))

CheckKeyValue ==
    /\ NextCheck("checkKeyValue")
    /\ \E c \in {Head(validator.todo)} :
         Checked(c, checkKeyValue(heap, validator.state, c.base, c.node))

ValidatorNext ==
    \/ ParseSyntax
    \/ CheckTableHeader
    \/ CheckAOTHeader
    \/ CheckKeyValue

ValidatorSpec == ValidatorInit /\ [][ValidatorNext]_vars

\* validate has returned: with an error, or after its last check
Returned == status = "validating" /\ (validator.state.err \/ validator.todo = <<>>)

\* validate has returned nil
Accepted == Returned /\ ~validator.state.err

\* The checks made one by one end in the tableState that validate computes
\* in one go, and Parse decides as they do.
StepsAgreeWithValidate ==
    Returned =>
        /\ validator.state = validate(heap, newTableState, nodes)
        /\ Parse(input).err = validator.state.err

\* ------------------------------------------------ the lexer and the loops
\* A program that hands a source to the parser and drives it step by step:
\* a call of advance (lexer.Next) in either valueMode, or one
\* iteration of the loop of parse, of parseArray or of parseInlineTable, from
\* whatever token the parser is at.

MaxSrcLen == 3
MaxBodyLen == 6
MaxDepth == 2

Texts(alphabet, n) == UNION {[1..k -> alphabet] : k \in 0..n}

Alphabet == {"a", "1", ".", "\"", "'", "\\", "\n", "\r", " ", "=", "[", "{", ",", "#"}

\* a multi-line string opened, and any body after it
MultiLineStrings ==
    UNION {{<<q, q, q>> \o b : b \in Texts({q, "a", "\\"}, MaxBodyLen)} : q \in {"\"", "'"}}

\* values nested in arrays and inline tables, d deep
RECURSIVE Values(_)
Values(d) ==
    IF d = 0 THEN {<<"1", ".", "5">>}
    ELSE LET vs == Values(d - 1) IN
         vs \cup {<<"[">> \o v \o <<"]">> : v \in vs}
            \cup {<<"[">> \o v \o <<",", " ", "1", ".", "5", "]">> : v \in vs}
            \cup {<<"[", "1", ".", "5", ",">> \o v \o <<"]">> : v \in vs}
            \cup {<<"{", "a", ".", "b", " ", "=", " ">> \o v \o <<"}">> : v \in vs}
            \cup {<<"{", "a", ".", "b", "=">> \o v \o <<",", "1", ".", "5", " ", "=", " ", "1", ".", "5", "}">> :
                     v \in vs}

\* an item that begins after a value
NextItems == {<<>>, <<"x", ".", "y", " ", "=", " ", "1", ".", "5", "\n">>}

NestedDocuments ==
    UNION {{h \o k \o <<" ", "=", " ">> \o v \o <<"\n">> \o t :
               h \in {<<>>, <<"[", "a", ".", "b", "]", "\n">>},
               k \in {<<"1", ".", "5">>},
               v \in Values(MaxDepth)} : t \in NextItems}

\* complete lines, and the comments and whitespace that may follow them
Bodies ==
    {<<>>,
     <<"a", " ", "=", " ", "1", "\n">>,
     <<"[", "t", "]", "\n">>,
     <<"[", "t", "]", "\n", "a", " ", "=", " ", "1", "\n">>,
     <<"a", " ", "=", " ", "1", "\n", "[", "t", "]", "\n">>,
     <<"[", "[", "p", "]", "]", "\n">>,
     <<"[", "[", "p", "]", "]", "\n", "a", " ", "=", " ", "1", "\n">>}

Tails == Texts({"#", " ", "\n"}, MaxSrcLen) \ {<<>>}

TriviaDocuments == UNION {{b \o t : b \in Bodies} : t \in Tails}

Sources ==
    Texts(Alphabet, MaxSrcLen) \cup MultiLineStrings \cup NestedDocuments \cup TriviaDocuments

\* newLexer
LexerInit ==
    /\ input \in Sources
    /\ status = "unparsed"
    /\ heap = <<>>
    /\ nodes = <<>>
    /\ last = NoCall
    /\ calls = 0
    /\ slice = NoSlice
    /\ validator = NoValidator
    /\ lexer = [NoLexer EXCEPT !.pos = 1]

\* the parser with its lexer and current token as the state has them
parserAt ==
    [newParser(input) EXCEPT !.pos = lexer.pos, !.valueMode = lexer.valueMode,
                             !.cur = lexer.cur]

\* the step op has left the parser as p
Stepped(op, p) ==
    /\ lexer' = [pos |-> p.pos, valueMode |-> p.valueMode, cur |-> p.cur, op |-> op,
                 err |-> p.err,
                 prev |-> [pos |-> lexer.pos, valueMode |-> lexer.valueMode,
                           cur |-> lexer.cur]]
    /\ UNCHANGED <<input, status, heap, nodes, last, calls, slice, validator>>

\* parser.advance: the next token, by lexer.Next, in the valueMode b that the
\* parser has set
CallNext ==
    /\ status = "unparsed"
    /\ \E b \in BOOLEAN :
         \E p \in {advance([parserAt EXCEPT !.valueMode = b])} : Stepped("Next", p)

AtToken == status = "unparsed" /\ lexer.cur # NoToken

\* one iteration of the loop of parser.parse; res is the trivia or the node
parseIteration_trailing(p2) == IF p2.err THEN p2 ELSE addTrailingTrivia(p2, p2.res)

parseIteration_item(p1) ==
    IF p1.err \/ at(p1, "TokEOF") THEN p1
    ELSE IF at(p1, "TokLBracket") THEN parseTableOrArrayHeader(p1, p1.res)
    ELSE parseIteration_trailing(parseKeyVal(p1, p1.res))

parseIteration(p) == parseIteration_item(collectLeadingTrivia(p, <<>>))

\* one iteration of the loop of parseArray; res is the element
parseArrayIteration_separator(p2) ==
    IF at(p2, "TokComma") THEN skipWsCommentNewline(advance(p2))
    ELSE IF ~at(p2, "TokRBracket") THEN Fail(p2)
    ELSE p2

parseArrayIteration_value(p1) ==
    IF p1.err THEN p1
    ELSE parseArrayIteration_separator(skipWsCommentNewline([p1 EXCEPT !.valueMode = TRUE]))

parseArrayIteration(p) == parseArrayIteration_value(parseValue([p EXCEPT !.valueMode = TRUE]))

\* one iteration of the loop of parseInlineTable; res is the entry
parseInlineTableIteration_separator(p2) ==
    IF at(p2, "TokComma") THEN skipWsCommentNewline(advance(p2))
    ELSE IF ~at(p2, "TokRBrace") THEN Fail(p2)
    ELSE p2

parseInlineTableIteration_entry(p1) ==
    IF p1.err THEN p1 ELSE parseInlineTableIteration_separator(skipWsCommentNewline(p1))

parseInlineTableIteration(p) == parseInlineTableIteration_entry(parseKeyVal(p, <<>>))

ParseItem ==
    /\ AtToken
    /\ lexer.cur.type # "TokEOF"
    /\ \E p \in {parseIteration(parserAt)} : Stepped("parse", p)

ParseArrayElement ==
    /\ AtToken
    /\ lexer.cur.type \notin {"TokRBracket", "TokEOF"}
    /\ \E p \in {parseArrayIteration(parserAt)} : Stepped("parseArray", p)

ParseInlineTableEntry ==
    /\ AtToken
    /\ lexer.cur.type \notin {"TokRBrace", "TokEOF"}
    /\ \E p \in {parseInlineTableIteration(parserAt)} : Stepped("parseInlineTable", p)

\* Parse, of a source not yet lexed
ParseSource ==
    /\ status = "unparsed"
    /\ lexer.cur = NoToken
    /\ \E r \in {Parse(input)} :
       /\ status' = IF r.err THEN "rejected" ELSE "parsed"
       /\ heap' = IF r.err THEN <<>> ELSE r.heap
       /\ nodes' = IF r.err THEN <<>> ELSE r.nodes
       /\ last' = [NoCall EXCEPT !.op = "Parse", !.ok = ~r.err]
    /\ UNCHANGED <<input, calls, slice, validator, lexer>>

LexerNext ==
    \/ CallNext
    \/ ParseItem
    \/ ParseArrayElement
    \/ ParseInlineTableEntry
    \/ ParseSource

LexerSpec == LexerInit /\ [][LexerNext]_vars

\* The loops of the parser are their iterations: where a loop is entered,
\* it ends as its first iteration followed by the loop again.
IterationsMakeLoops ==
    AtToken =>
        /\ (~at(parserAt, "TokRBracket") /\ ~at(parserAt, "TokEOF")) =>
              LET q == parseArrayIteration(parserAt)
                  r == parseArrayElements(parserAt, <<>>)
              IN  IF q.err THEN r.err
                  ELSE LET r1 == parseArrayElements(q, <<>>) IN
                       r.err = r1.err /\ (~r.err => r.cur = r1.cur)
        /\ (~at(parserAt, "TokRBrace") /\ ~at(parserAt, "TokEOF")) =>
              LET q == parseInlineTableIteration(parserAt)
                  r == parseInlineTableEntries(parserAt, <<>>)
              IN  IF q.err THEN r.err
                  ELSE LET r1 == parseInlineTableEntries(q, <<>>) IN
                       r.err = r1.err /\ (~r.err => r.cur = r1.cur)
        /\ ~at(parserAt, "TokEOF") =>
              LET q == parseIteration(parserAt)
                  r == parse(parserAt, <<>>, NIL)
              IN  IF q.err THEN r.err
                  ELSE LET r1 == parse(q, <<>>, NIL) IN
                       r.err = r1.err /\ (~r.err => r.cur = r1.cur)

\* ------------------------------------------------------------------- dates
\* A program that validates the text of a date or a date-time, and parses a
\* document that has it as a value.

MaxMonth == 13
MaxDay == 32

Years == {1900, 2000, 2023, 2024, 2100}

TwoDigits(n) == IF n < 10 THEN <<"0">> \o FormatInt(n) ELSE FormatInt(n)

Times == {<<>>, <<"T", "0", "7", ":", "3", "2", ":", "0", "0">>,
          <<"T", "0", "7", ":", "3", "2", ":", "0", "0", "Z">>}

Dates ==
    UNION {{FormatInt(y) \o <<"-">> \o TwoDigits(m) \o <<"-">> \o TwoDigits(d) \o t :
               y \in Years, m \in 0..MaxMonth, d \in 0..MaxDay} : t \in Times}

DateInit ==
    /\ input \in Dates
    /\ status = "unparsed"
    /\ heap = <<>>
    /\ nodes = <<>>
    /\ last = NoCall
    /\ calls = 0
    /\ slice = NoSlice
    /\ validator = NoValidator
    /\ lexer = NoLexer

CallValidateDateTimeText ==
    /\ status = "unparsed"
    /\ last = NoCall
    /\ \E msg \in {validateDateTimeText(input)} :
         last' = [NoCall EXCEPT !.op = "validateDateTimeText", !.ok = (msg = "")]
    /\ UNCHANGED <<input, status, heap, nodes, calls, slice, validator, lexer>>

\* Parse of the document that gives the key d the value input
ParseDate ==
    /\ status = "unparsed"
    /\ \E r \in {Parse(<<"d", " ", "=", " ">> \o input \o <<"\n">>)} :
       /\ status' = IF r.err THEN "rejected" ELSE "parsed"
       /\ heap' = IF r.err THEN <<>> ELSE r.heap
       /\ nodes' = IF r.err THEN <<>> ELSE r.nodes
       /\ last' = [NoCall EXCEPT !.op = "Parse", !.ok = ~r.err]
    /\ UNCHANGED <<input, calls, slice, validator, lexer>>

DateNext ==
    \/ CallValidateDateTimeText
    \/ ParseDate

DateSpec == DateInit /\ [][DateNext]_vars

\* ------------------------------------------------------------ canonical paths
\* A program that parses a document of two key-values with quoted keys and
\* asks for the canonical path of a key.

MaxParts == 2
MaxPartLen == 1

\* a key part as a literal string, and the dotted keys made of such parts
QuotedParts == {<<"'">> \o t \o <<"'">> : t \in Texts({"a", ".", "\""}, MaxPartLen) \ {<<>>}}

RECURSIVE Dotted(_)
Dotted(ps) == IF Len(ps) = 1 THEN ps[1] ELSE ps[1] \o <<".">> \o Dotted(Tail(ps))

QuotedKeys == {Dotted(ps) : ps \in UNION {[1..n -> QuotedParts] : n \in 1..MaxParts}}

KeyDocuments ==
    {k1 \o <<" ", "=", " ", "1", "\n">> \o k2 \o <<" ", "=", " ", "2", "\n">> :
        k1 \in QuotedKeys, k2 \in QuotedKeys}

PathInit ==
    /\ input \in KeyDocuments
    /\ status = "unparsed"
    /\ heap = <<>>
    /\ nodes = <<>>
    /\ last = NoCall
    /\ calls = 0
    /\ slice = NoSlice
    /\ validator = NoValidator
    /\ lexer = NoLexer

\* keyPartsToPath of the key of a key-value of the document
CallKeyPartsToPath ==
    /\ status = "validating"
    /\ \E i \in 1..Len(nodes) :
         \E path \in {keyPartsToPath(heap[nodes[i]].keyParts)} :
            last' = [NoCall EXCEPT !.op = "keyPartsToPath", !.node = nodes[i], !.path = path]
    /\ UNCHANGED <<input, status, heap, nodes, calls, slice, validator, lexer>>

PathNext ==
    \/ ParseSyntax
    \/ CallKeyPartsToPath

PathSpec == PathInit /\ [][PathNext]_vars

\* ----------------------------------------------------------------- properties
\* The properties speak of the last call through the record last: its
\* arguments, its result, and the heap and top-level nodes it started from.

Insertions ==
    {"Document.Append", "Document.InsertAt", "TableNode.Append", "TableNode.InsertAt",
     "ArrayOfTables.Append"}

TableInsertions == {"TableNode.Append", "TableNode.InsertAt", "ArrayOfTables.Append"}

Deletions ==
    {"Document.Delete", "Document.DeleteTable", "TableNode.Delete", "ArrayOfTables.Delete",
     "ArrayNode.Delete", "InlineTableNode.Delete"}

\* a key-value, a table header or an array-of-tables header
Structural(h, n) == n # NIL /\ h[n].type \in {"NodeKeyValue", "NodeTable", "NodeArrayOfTables"}

\* seq without its i-th element (1-based)
Without(seq, i) == [j \in 1..(Len(seq) - 1) |-> IF j < i THEN seq[j] ELSE seq[j + 1]]

\* the text an inline container would have if generated from its contents now
Synthetic(h, c) ==
    IF h[c].type = "NodeInlineTable" THEN generateInlineTableText(h, h[c].entries)
    ELSE generateArrayText(h, h[c].elements)

\* the inline tables and arrays that hold n at any depth, n itself included
InlineContainersOf(h, n) ==
    {c \in 1..Len(h) : h[c].type \in {"NodeInlineTable", "NodeArray"} /\ n \in Subtree(h, c)}

\* C1: for every input Parse accepts, String() of the unmutated document is
\* the input, byte for byte.
C1_RoundTrip == (status = "parsed" /\ last.op = "Parse") => String(heap, nodes) = input

\* C2: when Append or InsertAt on a document, a table or an array of tables
\* returns an error for a structural node, the document has the nodes it had
\* before the call, in the same order, every container has the entries it had,
\* and String() is what it was.
C2_FailedInsertionLeavesDocument ==
    (last.op \in Insertions /\ ~last.ok /\ Structural(last.heap0, last.node)) =>
        /\ nodes = last.nodes0
        /\ Len(heap) = Len(last.heap0)
        /\ \A n \in 1..Len(heap) : /\ heap[n].entries = last.heap0[n].entries
                                   /\ heap[n].elements = last.heap0[n].elements
                                   /\ heap[n].val = last.heap0[n].val
        /\ String(heap, nodes) = String(last.heap0, last.nodes0)

\* a structural node was put in front of a document of two nodes and taken out again
C2_RolledBackInsertAt ==
    /\ last.op = "Document.InsertAt"
    /\ ~last.ok
    /\ Structural(last.heap0, last.node)
    /\ last.index = 0
    /\ Len(last.nodes0) = 2

\* C3: at every API boundary after Parse, whatever calls were made and whether
\* they succeeded, the full semantic validator accepts the document.
C3_DocumentStaysValid == status = "parsed" => ~validateDocument(heap, nodes)

\* C4: an Append or InsertAt of a key-value into a table or array of tables runs
\* the full validator exactly when the container is a node of the document
\* (a parsed one included), and after a success the document is valid.
C4_AttachedContainerRunsFullValidator ==
    (last.op \in TableInsertions /\ last.node # NIL) =>
        /\ (last.branch = "full") <=> (\E i \in 1..Len(last.nodes0) : last.nodes0[i] = last.target)
        /\ (last.ok /\ ~validateDocument(last.heap0, last.nodes0)) => ~validateDocument(heap, nodes)

\* C5: when a structural insertion fails validation and is rolled back, the
\* rejected node's parent is what it was immediately before the call.
C5_RollbackRestoresParent ==
    (last.op \in Insertions /\ ~last.ok /\ Structural(last.heap0, last.node)) =>
        heap[last.node].parent = last.heap0[last.node].parent

\* C6: after a Delete or DeleteTable has removed a node, the removed node's
\* parent is nil.
C6_RemovedNodeHasNoParent ==
    (last.op \in Deletions /\ last.removed # NIL) => heap[last.removed].parent = NIL

\* The places of a document where a key-value answers to the segments segs:
\* <<DOC, i>> for the i-th top-level node, its key parts being all of segs, and
\* <<t, i>> for the i-th entry of a top-level table or array of tables t whose
\* header parts are the first k segments, its key parts being the rest.
Places(h, ns, segs) ==
    {<<DOC, i>> : i \in {j \in 1..Len(ns) : /\ h[ns[j]].type = "NodeKeyValue"
                                            /\ matchKeyParts(h[ns[j]].keyParts, segs)}}
    \cup UNION {{<<ns[t], i>> :
                    i \in {j \in 1..Len(h[ns[t]].entries) :
                             /\ h[h[ns[t]].entries[j]].type = "NodeKeyValue"
                             /\ \E k \in 1..(Len(segs) - 1) :
                                  /\ matchKeyParts(h[ns[t]].headerParts, SubSeq(segs, 1, k))
                                  /\ matchKeyParts(h[h[ns[t]].entries[j]].keyParts,
                                                   SubSeq(segs, k + 1, Len(segs)))}} :
                t \in {u \in 1..Len(ns) : h[ns[u]].type \in {"NodeTable", "NodeArrayOfTables"}}}

\* the document h, ns with the key-value at place p taken out is h2, ns2
TakenOut(h, ns, p, h2, ns2) ==
    IF p[1] = DOC
    THEN ns2 = Without(ns, p[2]) /\ h2 = h
    ELSE ns2 = ns /\ h2 = [h EXCEPT ![p[1]].entries = Without(@, p[2])]

C9_SetValueRegeneratesAncestors ==
    (last.op = "KeyValue.SetValue" /\ last.ok /\ calls = 1) =>
        \A c \in InlineContainersOf(heap, last.target) : heap[c].text = Synthetic(heap, c)

\* C10: after an Append or Delete on an array or inline table, the text of that
\* container and of every inline container above it is the text generated from
\* its contents.
C10_ContainerTextIsSynthetic ==
    (last.op \in {"ArrayNode.Append", "ArrayNode.Delete", "InlineTableNode.Append",
                  "InlineTableNode.Delete"} /\ last.ok /\ calls = 1) =>
        \A c \in InlineContainersOf(heap, last.target) : heap[c].text = Synthetic(heap, c)

\* The key-values of an inline table's entries that answer to segs, in the
\* order of preference: those whose key parts are all of segs, then those
\* found inside an entry's inline table whose key is a strict prefix of segs.
RECURSIVE InlineAnswers(_, _, _)
InlineAnswers(h, entries, segs) ==
    LET exact(e) == matchKeyParts(h[e].keyParts, segs)
        below(e) ==
            IF /\ Len(h[e].keyParts) < Len(segs)
               /\ matchKeyParts(h[e].keyParts, SubSeq(segs, 1, Len(h[e].keyParts)))
               /\ h[e].val # NIL
               /\ h[h[e].val].type = "NodeInlineTable"
            THEN InlineAnswers(h, h[h[e].val].entries,
                               SubSeq(segs, Len(h[e].keyParts) + 1, Len(segs)))
            ELSE <<>>
    IN  SelectSeq(entries, exact) \o Concat([k \in 1..Len(entries) |-> below(entries[k])])

\* the same for the entries of a document or of a table, where only the
\* key-values count
EntryAnswers(h, entries, segs) ==
    LET isKV(e) == h[e].type = "NodeKeyValue" IN
    InlineAnswers(h, SelectSeq(entries, isKV), segs)

\* All answers of a document to segs in the order of preference: the
\* top-level ones, then for k from Len(segs) - 1 down to 1 and the tables and
\* arrays of tables in document order whose header is the first k segments,
\* the answers of their entries to the remaining segments.
Answers(h, ns, segs) ==
    LET inTable(t, k) ==
            IF /\ h[t].type \in {"NodeTable", "NodeArrayOfTables"}
               /\ matchKeyParts(h[t].headerParts, SubSeq(segs, 1, k))
            THEN EntryAnswers(h, h[t].entries, SubSeq(segs, k + 1, Len(segs)))
            ELSE <<>>
        withPrefix(k) == Concat([t \in 1..Len(ns) |-> inTable(ns[t], k)])
    IN  EntryAnswers(h, ns, segs)
        \o Concat([j \in 1..(Len(segs) - 1) |-> withPrefix(Len(segs) - j)])

\* C11: Document.Get(path) returns the first answer in the order of
\* preference (top-level key-value with exactly these key parts, else an
\* entry inside a top-level inline table, else the entries of the tables whose
\* header is the longest possible prefix, in document order), returns nil
\* exactly when nothing answers, and changes nothing.
C11_GetReturnsFirstMatch ==
    last.op = "Document.Get" =>
        LET answers == Answers(last.heap0, last.nodes0, parseDottedPath(last.path, 1)) IN
        /\ last.found = (IF answers = <<>> THEN NIL ELSE answers[1])
        /\ heap = last.heap0
        /\ nodes = last.nodes0

\* Document.Get found an entry of an inline table that a table holds
C11_FoundInsideInlineTable ==
    /\ last.op = "Document.Get"
    /\ last.found # NIL
    /\ \E t \in 1..Len(nodes) :
          /\ heap[nodes[t]].type = "NodeTable"
          /\ \E e \in 1..Len(heap[nodes[t]].entries) :
                LET v == heap[heap[nodes[t]].entries[e]].val IN
                /\ v # NIL
                /\ heap[v].type = "NodeInlineTable"
                /\ \E x \in 1..Len(heap[v].entries) : heap[v].entries[x] = last.found

\* C12: the slices the accessors KeyParts, HeaderParts, Entries, Elements and
\* Nodes return are copies: when the caller overwrites an element of a
\* returned slice or appends to it, no list of the document and no byte of
\* the serialized output changes.
C12_ReturnedSlicesAreCopies ==
    last.op = "write" =>
        /\ heap = last.heap0
        /\ nodes = last.nodes0
        /\ String(heap, nodes) = String(last.heap0, last.nodes0)

\* the caller has overwritten the first element of the entries a table returned
C12_EntriesOverwritten ==
    /\ last.op = "write"
    /\ last.target \in NodesOfType({"NodeTable"})
    /\ last.index = 0
    /\ Len(heap[last.target].entries) > 0

\* the pre-order of the tree below n: n, then the pre-orders of its children
\* in stored order
RECURSIVE Preorder(_, _, _)
Preorder(h, ns, n) ==
    <<n>> \o Concat([i \in 1..Len(Children(h, ns, n)) |-> Preorder(h, ns, Children(h, ns, n)[i])])

\* C13: Document.Walk hands the nodes to the visitor in pre-order, the
\* document first, every node before its children and the children in stored
\* order; after the call on which the visitor returns false it hands over no
\* further node, and with a visitor that never returns false it hands over
\* every node.
C13_WalkIsPreorderAndStops ==
    last.op = "Document.Walk" =>
        LET all     == Preorder(last.heap0, last.nodes0, DOC)
            stopped == last.index # 0 /\ last.index <= Len(all)
        IN  /\ last.visited = SubSeq(all, 1, IF stopped THEN last.index ELSE Len(all))
            /\ stopped => Len(last.visited) = last.index
            /\ \A j \in 2..Len(last.visited) :
                  \E i \in 1..(j - 1) :
                     \E c \in 1..Len(Children(last.heap0, last.nodes0, last.visited[i])) :
                        Children(last.heap0, last.nodes0, last.visited[i])[c] = last.visited[j]

\* a walk was stopped on its second visit although the document holds more
\* nodes, children of the node visited second among them
C13_StoppedBeforeChildren ==
    /\ last.op = "Document.Walk"
    /\ last.index = 2
    /\ Len(last.visited) = 2
    /\ Children(heap, nodes, last.visited[2]) # <<>>
    /\ Len(nodes) > 1

\* ------------------------------------------------- properties of the validator
\* They speak of the last check through the record last: the function called,
\* its node, the header parts it was handed, the tableState ts0 it started
\* from, and err, whether it reported an error.

\* the path a header declares, and the full leaf path of a key-value
HeaderPath == keyPartsToPath(heap[last.node].headerParts)

LeafPath == keyPartsToPath(last.base \o heap[last.node].keyParts)

\* the proper prefixes of a header's path
HeaderPrefixes ==
    {keyPartsToPath(SubSeq(heap[last.node].headerParts, 1, i)) :
        i \in 1..(Len(heap[last.node].headerParts) - 1)}

\* the intermediate paths of a key-value with a dotted key
DottedIntermediates ==
    {keyPartsToPath(last.base \o SubSeq(heap[last.node].keyParts, 1, i)) :
        i \in 1..(Len(heap[last.node].keyParts) - 1)}

\* C16: a [path] header is rejected whenever its path already holds
\* explicit_table, aot, dotted_key_table, scalar, inline or static_array.
C16_TableHeaderRejected ==
    (/\ last.op = "checkTable"
     /\ HeaderPath \in last.ts0.explicitTables \cup last.ts0.aotPaths
                       \cup last.ts0.dottedKeyTables \cup last.ts0.scalarPaths
                       \cup last.ts0.inlinePaths \cup last.ts0.staticArrays)
    => last.err

\* a [path] header was rejected whose path is an array of tables
C16_TableAfterArrayOfTables ==
    /\ last.op = "checkTable"
    /\ HeaderPath \in last.ts0.aotPaths
    /\ HeaderPath \notin last.ts0.explicitTables \cup last.ts0.dottedKeyTables
                          \cup last.ts0.scalarPaths \cup last.ts0.inlinePaths
    /\ last.err

\* C17: a [[path]] header is rejected whenever its path already holds
\* explicit_table, scalar, inline, static_array or dotted_key_table, or holds
\* implicit_table without being an array of tables; an accepted [[path]]
\* whose path holds any role at all declares a path that is already aot.
C17_ArrayOfTablesHeaderRejected ==
    last.op = "checkAOT" =>
        /\ (\/ HeaderPath \in last.ts0.explicitTables \cup last.ts0.scalarPaths
                               \cup last.ts0.inlinePaths \cup last.ts0.staticArrays
                               \cup last.ts0.dottedKeyTables
            \/ (HeaderPath \in last.ts0.implicitTables /\ HeaderPath \notin last.ts0.aotPaths))
           => last.err
        /\ (/\ ~last.err
            /\ HeaderPath \in last.ts0.explicitTables \cup last.ts0.scalarPaths
                               \cup last.ts0.inlinePaths \cup last.ts0.staticArrays
                               \cup last.ts0.dottedKeyTables \cup last.ts0.implicitTables
                               \cup last.ts0.aotPaths)
           => HeaderPath \in last.ts0.aotPaths

\* a [[path]] header was rejected whose path is an implicit table only
C17_ArrayOfTablesAfterImplicitTable ==
    /\ last.op = "checkAOT"
    /\ HeaderPath \in last.ts0.implicitTables
    /\ HeaderPath \notin last.ts0.aotPaths \cup last.ts0.explicitTables
                          \cup last.ts0.dottedKeyTables \cup last.ts0.scalarPaths
                          \cup last.ts0.inlinePaths
    /\ last.err

\* C18: a key-value is rejected whenever its full leaf path already holds
\* scalar, inline, dotted_key_table or aot.
C18_LeafRejected ==
    (/\ last.op = "checkKeyValue"
     /\ LeafPath \in last.ts0.scalarPaths \cup last.ts0.inlinePaths
                     \cup last.ts0.dottedKeyTables \cup last.ts0.aotPaths)
    => last.err

\* a key-value was rejected whose leaf path is a dotted-key table
C18_LeafIsDottedKeyTable ==
    /\ last.op = "checkKeyValue"
    /\ LeafPath \in last.ts0.dottedKeyTables
    /\ LeafPath \notin last.ts0.scalarPaths \cup last.ts0.inlinePaths \cup last.ts0.aotPaths
    /\ DottedIntermediates = {}
    /\ last.err

\* C19: a key-value with a dotted key is rejected whenever one of its
\* intermediate paths, the enclosing header's path in front, already holds
\* inline, scalar, explicit_table or aot.
C19_DottedIntermediateRejected ==
    (/\ last.op = "checkKeyValue"
     /\ \E ip \in DottedIntermediates :
           ip \in last.ts0.inlinePaths \cup last.ts0.scalarPaths
                  \cup last.ts0.explicitTables \cup last.ts0.aotPaths)
    => last.err

\* a dotted key inside a table was rejected for an intermediate path that is
\* an explicit table
C19_IntermediateIsExplicitTable ==
    /\ last.op = "checkKeyValue"
    /\ last.base # <<>>
    /\ \E ip \in DottedIntermediates :
          /\ ip \in last.ts0.explicitTables
          /\ ip \notin last.ts0.inlinePaths \cup last.ts0.scalarPaths \cup last.ts0.aotPaths
    /\ LeafPath \notin last.ts0.scalarPaths \cup last.ts0.inlinePaths
                       \cup last.ts0.dottedKeyTables \cup last.ts0.aotPaths
    /\ last.err

\* C20: a [path] or [[path]] header is rejected whenever a proper prefix of
\* its path already holds scalar, inline or static_array.
C20_HeaderBeneathValueRejected ==
    (/\ last.op \in {"checkTable", "checkAOT"}
     /\ \E pp \in HeaderPrefixes :
           pp \in last.ts0.scalarPaths \cup last.ts0.inlinePaths \cup last.ts0.staticArrays)
    => last.err

\* a [[path]] header was rejected for a prefix that is a value, its own path
\* holding no role
C20_ArrayOfTablesBeneathScalar ==
    /\ last.op = "checkAOT"
    /\ \E pp \in HeaderPrefixes : pp \in last.ts0.scalarPaths
    /\ HeaderPath \notin last.ts0.explicitTables \cup last.ts0.scalarPaths
                          \cup last.ts0.inlinePaths \cup last.ts0.staticArrays
                          \cup last.ts0.dottedKeyTables \cup last.ts0.implicitTables
    /\ last.err

\* the paths a check declares a table: the path of a header, and the
\* intermediate paths of a dotted key
TablePaths(c) ==
    IF c.op = "checkKeyValue"
    THEN {keyPartsToPath(c.base \o SubSeq(heap[c.node].keyParts, 1, i)) :
             i \in 1..(Len(heap[c.node].keyParts) - 1)}
    ELSE {keyPartsToPath(heap[c.node].headerParts)}

\* the path a check declares a value: the full leaf path of a key-value
ValuePaths(c) ==
    IF c.op = "checkKeyValue" THEN {keyPartsToPath(c.base \o heap[c.node].keyParts)}
    ELSE {}

\* the check begins a new scope for path x: a [[p]] header with p a proper
\* prefix of x
BeginsScopeOf(c, x) ==
    /\ c.op = "checkAOT"
    /\ HasPrefix(x, keyPartsToPath(heap[c.node].headerParts) \o <<".">>)

\* C14: in a document the validator accepts no path is declared both a table
\* (by a [path] header, a [[path]] header or as the intermediate of a dotted
\* key) and a value within one scope, in whichever order the two
\* declarations stand; a [[p]] header between them, p a proper prefix of the
\* path, puts them into different scopes.
C14_NoPathIsTableAndValue ==
    Accepted =>
        \A i, j \in 1..Len(Checks(heap, nodes)) :
           \A x \in TablePaths(Checks(heap, nodes)[i]) \cap ValuePaths(Checks(heap, nodes)[j]) :
              \E k \in 1..Len(Checks(heap, nodes)) :
                 /\ (i < k /\ k < j) \/ (j < k /\ k < i)
                 /\ BeginsScopeOf(Checks(heap, nodes)[k], x)

\* the successful calls that change a document
Mutations ==
    Insertions \cup Deletions \cup {"KeyValue.SetValue", "ArrayNode.Append", "InlineTableNode.Append"}

\* the full paths of the key-values of a document, in document order
KeyPaths(h, ns) ==
    LET isKV(c) == c.op = "checkKeyValue"
        kvs == SelectSeq(Checks(h, ns), isKV)
    IN  [i \in 1..Len(kvs) |-> keyPartsToPath(kvs[i].base \o h[kvs[i].node].keyParts)]

\* r is the result of Parse(text) for the text of the document h, ns: Parse
\* accepts the text, and the new document has the same keys under the same
\* table paths and the same text
SameDocument(h, ns, text, r) ==
    /\ ~r.err
    /\ KeyPaths(r.heap, r.nodes) = KeyPaths(h, ns)
    /\ String(r.heap, r.nodes) = text

ParsesBack(h, ns, text) == SameDocument(h, ns, text, Parse(text))

\* C15: after a successful mutation of a parsed document String() round-trips
\* under Parse: Parse accepts the text, the re-parsed document places every
\* key under the same table path as the tree in memory, and it serializes to
\* the same text.
C15_MutatedDocumentParsesBack ==
    (status = "parsed" /\ calls = 1 /\ last.op \in Mutations /\ last.ok)
    => ParsesBack(heap, nodes, String(heap, nodes))

\* the maps that a new entry of an array of tables sweeps
SweptMaps == {"explicitTables", "dottedKeyTables", "scalarPaths", "inlinePaths", "staticArrays"}

\* An accepted [[p]] header removes from the explicit_table,
\* dotted_key_table, scalar, inline and static_array maps exactly the paths
\* under the prefix "p." and nothing else; the aot and implicit_table maps
\* lose nothing and gain only p, respectively proper prefixes of p.
SweepsSubScope ==
    (last.op = "checkAOT" /\ ~last.err) =>
        /\ \A m \in SweptMaps :
              validator.state[m] = {k \in last.ts0[m] : ~HasPrefix(k, HeaderPath \o <<".">>)}
        /\ last.ts0.aotPaths \subseteq validator.state.aotPaths
        /\ validator.state.aotPaths \ last.ts0.aotPaths \subseteq {HeaderPath}
        /\ last.ts0.implicitTables \subseteq validator.state.implicitTables
        /\ validator.state.implicitTables \ last.ts0.implicitTables \subseteq HeaderPrefixes

\* the declarations that stand in the sub-scope of a header of DeclLines: the
\* key-values, and beneath [[a]] the headers of a.b
SubScopeLines(hdr) ==
    {l \in DeclLines : l[1] # "["}
    \cup (IF hdr = <<"[", "[", "a", "]", "]", "\n">>
          THEN {<<"[", "a", ".", "b", "]", "\n">>, <<"[", "[", "a", ".", "b", "]", "]", "\n">>}
          ELSE {})

\* An entry of an array of tables that the validator accepts is accepted
\* again when the document repeats it, header and sub-scope declaration, as
\* the next entry.
RepeatedEntryAccepted ==
    \A hdr \in {<<"[", "[", "a", "]", "]", "\n">>, <<"[", "[", "a", ".", "b", "]", "]", "\n">>} :
       \A l \in SubScopeLines(hdr) :
          (Returned /\ input = hdr \o l \o hdr \o l /\ ~Parse(hdr \o l).err)
          => ~validator.state.err

\* C21: each accepted [[p]] header clears the roles of the paths under "p."
\* from the explicit_table, dotted_key_table, scalar, inline and static_array
\* maps, leaves aot and implicit_table intact and the roles of all other
\* paths unchanged, so that the same sub-keys and sub-tables are accepted
\* again in the next entry.
C21_NewEntryClearsSubScope == SweepsSubScope /\ RepeatedEntryAccepted

\* a second [[p]] header was accepted and swept a value of the entry before
\* it, while a value outside the prefix stayed
C21_SecondEntrySweepsValue ==
    /\ last.op = "checkAOT"
    /\ ~last.err
    /\ HeaderPath \in last.ts0.aotPaths
    /\ \E k \in last.ts0.scalarPaths : HasPrefix(k, HeaderPath \o <<".">>)
    /\ validator.state.scalarPaths # {}

\* the key parts ps are the first parts of the key parts qs, or all of them
IsKeyPrefix(ps, qs) ==
    /\ Len(ps) <= Len(qs)
    /\ \A i \in 1..Len(ps) : ps[i].Unquoted = qs[i].Unquoted

\* two entries of the inline table t collide: they have the same key, or the
\* key of one is a proper prefix of the dotted key of the other
InlineKeysCollide(h, t) ==
    \E i, j \in 1..Len(h[t].entries) :
       /\ i # j
       /\ IsKeyPrefix(h[h[t].entries[i]].keyParts, h[h[t].entries[j]].keyParts)

\* C22: a key-value whose value is an inline table with two entries of the
\* same key, or with an entry whose key is a proper prefix of another entry's
\* dotted key, is rejected, in whichever order the two entries stand.
C22_InlineTableKeysRejected ==
    (/\ last.op = "checkKeyValue"
     /\ heap[heap[last.node].val].type = "NodeInlineTable"
     /\ InlineKeysCollide(heap, heap[last.node].val))
    => last.err

\* the nodes reachable from the document
Reachable(h, ns) == UNION {Subtree(h, ns[i]) : i \in 1..Len(ns)}

\* C23: after Parse and after every call, successful or not, the parent of
\* every key-value, table and array of tables at top level is the document,
\* the parent of a key-value among the entries of a table, an array of
\* tables or an inline table is that container, the parent of a value is
\* its key-value, and the parent of an element is its array.
C23_ParentIsContainer ==
    status = "parsed" =>
        /\ \A i \in 1..Len(nodes) :
              Structural(heap, nodes[i]) => heap[nodes[i]].parent = DOC
        /\ \A n \in Reachable(heap, nodes) :
              /\ heap[n].val # NIL => heap[heap[n].val].parent = n
              /\ \A e \in 1..Len(heap[n].entries) :
                    heap[heap[n].entries[e]].type = "NodeKeyValue"
                    => heap[heap[n].entries[e]].parent = n
              /\ \A e \in 1..Len(heap[n].elements) : heap[heap[n].elements[e]].parent = n

\* d is the outcome of Document.Delete on the document h, ns for the path on
\* which Document.Get returned the key-value g: it returns true and has
\* removed g, which the document no longer reaches
DeletesFound(g, d) ==
    /\ d.ok
    /\ d.removed = g
    /\ g \notin Reachable(d.heap, d.nodes)

\* C24: whenever Document.Get(path) returns a key-value, Document.Delete(path)
\* called on the same document returns true and removes that key-value, which
\* is no longer reachable from the document afterwards.
C24_DeleteRemovesWhatGetFinds ==
    (last.op = "Document.Get" /\ last.found # NIL)
    => DeletesFound(last.found, DocumentDelete(heap, nodes, last.path))

\* C25: Parse terminates.  A call of lexer.Next on input not yet
\* exhausted returns a token that starts where the lexer was and ends at
\* least one byte further, within the input, and the end-of-file token comes
\* only at the end of the input; an iteration of the loop of parse, of
\* parseArray or of parseInlineTable returns an error or leaves the parser
\* at a later token than it found it.
C25_LexerAndLoopsProgress ==
    /\ lexer.op = "Next" =>
          /\ (lexer.cur.type = "TokEOF") = (lexer.prev.pos > Len(input))
          /\ lexer.cur.pos = lexer.prev.pos
          /\ lexer.cur.end = lexer.pos
          /\ lexer.prev.pos <= Len(input) =>
                (lexer.pos > lexer.prev.pos /\ lexer.pos <= Len(input) + 1)
    /\ lexer.op \in {"parse", "parseArray", "parseInlineTable"} =>
          (lexer.err \/ lexer.cur.pos > lexer.prev.cur.pos)

C25_LoneCarriageReturnConsumed ==
    /\ lexer.op = "Next"
    /\ lexer.cur.type = "TokError"
    /\ lexer.cur.text = <<"\r">>
    /\ lexer.pos = lexer.prev.pos + 1

\* C26: in a document whose keys are dotted keys of two one-byte
\* parts (a.b, 1.5, x.y) and whose numbers are all 1.5, at the top level, under
\* a header and in every nesting of arrays and inline tables, Parse accepts
\* the document, every key has its two parts (the dot was a token of its
\* own), every number is the one float 1.5, and the document is the input.
C26_KeysAndValuesLexedInTheirMode ==
    (last.op = "Parse" /\ input \in NestedDocuments) =>
        /\ status = "parsed"
        /\ String(heap, nodes) = input
        /\ \A n \in 1..Len(heap) :
              /\ heap[n].type \in {"NodeKeyValue", "NodeTable", "NodeNumber", "NodeArray",
                                   "NodeInlineTable", "NodeWhitespace"}
              /\ heap[n].type = "NodeKeyValue" =>
                    /\ Len(heap[n].keyParts) = 2
                    /\ \A i \in 1..2 : Len(heap[n].keyParts[i].Unquoted) = 1
              /\ heap[n].type = "NodeTable" =>
                    /\ Len(heap[n].headerParts) = 2
                    /\ \A i \in 1..2 : Len(heap[n].headerParts[i].Unquoted) = 1
              /\ heap[n].type = "NodeNumber" => heap[n].text = <<"1", ".", "5">>

C26_FloatAfterInlineTableInArray ==
    /\ last.op = "Parse"
    /\ status = "parsed"
    /\ \E n \in 1..Len(heap) :
          /\ heap[n].type = "NodeArray"
          /\ Len(heap[n].elements) = 2
          /\ heap[heap[n].elements[1]].type = "NodeInlineTable"
          /\ heap[heap[n].elements[2]].text = <<"1", ".", "5">>

\* the backslashes that end just before position j, from position lo on
RECURSIVE BackslashesBefore(_, _, _)
BackslashesBefore(src, j, lo) ==
    IF j > lo /\ src[j - 1] = "\\" THEN 1 + BackslashesBefore(src, j - 1, lo) ELSE 0

\* position j holds a quote q that no backslash escapes (a literal string
\* has no escapes)
UnescapedQuote(src, j, lo, q) ==
    /\ src[j] = q
    /\ (q = "'" \/ BackslashesBefore(src, j, lo) % 2 = 0)

RunLength(src, j, q) == ScanWhile(src, j, {q}) - j

\* where the runs of three or more unescaped quotes begin, from lo on
ClosingRuns(src, lo, q) ==
    {j \in lo..Len(src) :
        /\ UnescapedQuote(src, j, lo, q)
        /\ ~(j > lo /\ UnescapedQuote(src, j - 1, lo, q))
        /\ RunLength(src, j, q) >= 3}

\* the token of the multi-line string opened at s is as the runs of quotes say
EndsAtFirstRun(src, s, q, tok) ==
    LET runs == ClosingRuns(src, s + 3, q) IN
    IF runs = {} THEN tok.type = "TokError" /\ tok.pos = s
    ELSE LET j == CHOOSE i \in runs : \A k \in runs : i <= k
             n == RunLength(src, j, q)
         IN  /\ tok.type = (IF q = "'" THEN "TokMultiLineLiteralStr" ELSE "TokMultiLineBasicStr")
             /\ tok.pos = s
             /\ tok.end = j + (IF n > 5 THEN 5 ELSE n)

\* C27: the token that lexer.Next returns where three quotes of a
\* kind open a multi-line string ends with the first run of three or more
\* unescaped quotes of that kind and takes at most five quotes of the run;
\* shorter runs are content; when no run closes the string the token is an
\* error token at the position of the opening quotes.
C27_MultiLineStringEndsAtFirstRun ==
    \A q \in {"\"", "'"} :
        (/\ lexer.op = "Next"
         /\ lexer.prev.pos + 2 <= Len(input)
         /\ \A i \in 0..2 : input[lexer.prev.pos + i] = q)
        => EndsAtFirstRun(input, lexer.prev.pos, q, lexer.cur)

C27_SixthQuoteLeft ==
    /\ lexer.op = "Next"
    /\ lexer.cur.type = "TokMultiLineBasicStr"
    /\ Len(lexer.cur.text) >= 8
    /\ lexer.cur.end <= Len(input)
    /\ input[lexer.cur.end] = "\""
    /\ input[lexer.cur.end - 5] = "\""

\* the table or array of tables that the last header opened, or NIL
Scope(h, ns) ==
    LET ts == {i \in 1..Len(ns) : h[ns[i]].type \in {"NodeTable", "NodeArrayOfTables"}} IN
    IF ts = {} THEN NIL ELSE ns[CHOOSE i \in ts : \A j \in ts : j <= i]

\* the last key-value of a list of nodes, or NIL
LastKeyValue(h, es) ==
    LET ks == {i \in 1..Len(es) : h[es[i]].type = "NodeKeyValue"} IN
    IF ks = {} THEN NIL ELSE es[CHOOSE i \in ks : \A j \in ks : j <= i]

\* h and ns are the document r with the trivia t attached at its end
TriviaAttached(r, t, h, ns) ==
    LET n   == Len(r.heap)
        new == [i \in 1..(Len(h) - n) |-> n + i]
        old == SubSeq(h, 1, n)
        ct  == Scope(r.heap, r.nodes)
        kv  == LastKeyValue(r.heap, IF ct = NIL THEN r.nodes ELSE r.heap[ct].entries)
    IN  /\ ~r.err
        /\ Len(h) > n
        /\ \A i \in n + 1..Len(h) : h[i].type \in {"NodeWhitespace", "NodeComment"}
        /\ Concat([i \in 1..Len(new) |-> h[new[i]].text]) = t
        /\ IF kv # NIL
           THEN old = [r.heap EXCEPT ![kv].trailing = @ \o new] /\ ns = r.nodes
           ELSE IF ct # NIL
                THEN old = [r.heap EXCEPT ![ct].entries = @ \o new] /\ ns = r.nodes
           ELSE old = r.heap /\ ns = r.nodes \o new

\* C28: when comments and whitespace follow the last complete line
\* of an input, Parse returns the document of the lines before them with one
\* trivia node per token added: to the trailing trivia of the last key-value
\* of the table or array of tables that the last header opened (of the top
\* level when there is no header), or, when that has no key-value, to the
\* entries of that table or array of tables, or else to the document's nodes.
\* The texts of the added nodes are the bytes that followed, in order, and
\* String() has every byte as often as the input has it.
C28_EndOfFileTriviaAttached ==
    (last.op = "Parse" /\ input \in TriviaDocuments) =>
        /\ status = "parsed"
        /\ \A b \in Bodies : \A t \in Tails :
              input = b \o t => \A r \in {Parse(b)} : TriviaAttached(r, t, heap, nodes)
        /\ \A c \in {"#", " ", "\n", "a", "=", "1", "[", "]", "t", "p"} :
              Count(String(heap, nodes), c) = Count(input, c)

C28_AttachedToLastKeyValueOfTable ==
    /\ last.op = "Parse"
    /\ status = "parsed"
    /\ input \in TriviaDocuments
    /\ Len(nodes) = 1
    /\ heap[nodes[1]].type = "NodeTable"
    /\ Len(heap[nodes[1]].entries) = 1
    /\ \E i \in 1..Len(heap[heap[nodes[1]].entries[1]].trailing) :
          heap[heap[heap[nodes[1]].entries[1]].trailing[i]].type = "NodeComment"

\* the number of days of month m in year y
MonthLength(y, m) ==
    IF m = 2 THEN (IF y % 4 = 0 /\ (y % 100 # 0 \/ y % 400 = 0) THEN 29 ELSE 28)
    ELSE IF m \in {4, 6, 9, 11} THEN 30
    ELSE 31

CalendarDate(y, m, d) == m \in 1..12 /\ d \in 1..MonthLength(y, m)

\* C29: a date that validateDateTimeText accepts, alone or as the
\* date of a date-time, and a date in a document that Parse accepts, has a
\* month from 01 to 12 and a day from 01 to the length of the month in its
\* year, February having 29 days in the years divisible by 4 and not by 100,
\* or divisible by 400, and 28 days in the others.
C29_AcceptedDateIsCalendarDate ==
    (last.op \in {"validateDateTimeText", "Parse"} /\ last.ok /\ input \in Dates) =>
        CalendarDate(Atoi(SubSeq(input, 1, 4)), Atoi(SubSeq(input, 6, 7)),
                     Atoi(SubSeq(input, 9, 10)))

C29_LeapDayOf2000Accepted ==
    /\ last.op = "Parse"
    /\ status = "parsed"
    /\ SubSeq(input, 1, 10) = <<"2", "0", "0", "0", "-", "0", "2", "-", "2", "9">>
    /\ Len(input) > 10
    /\ heap[heap[nodes[1]].val].type = "NodeDateTime"

\* the unquoted texts of key parts
UnquotedTexts(parts) == [i \in 1..Len(parts) |-> parts[i].Unquoted]

\* C30: keyPartsToPath is injective.  The canonical path of a key
\* is the canonical path of no key of the document that has another number of
\* parts or another unquoted text in some part.
C30_CanonicalPathInjective ==
    last.op = "keyPartsToPath" =>
        \A i \in 1..Len(nodes) :
            UnquotedTexts(heap[nodes[i]].keyParts) # UnquotedTexts(heap[last.node].keyParts)
            => keyPartsToPath(heap[nodes[i]].keyParts) # last.path

====
